---- MODULE Spec2Model ----
(***************************************************************************)
(* Green Power proxy ingestion (GreenPowerProxy) of                         *)
(* zigpy/zcl/clusters/general.py: commissioning of virtual devices, secure  *)
(* frame authentication, replay protection and command translation.        *)
(*                                                                         *)
(* Python values are rendered as follows: bytes are sequences of 0..255,    *)
(* a dict is a function whose DOMAIN is the set of keys, None in an         *)
(* integer position is the value None (-1), an EUI64 is its 8 bytes.        *)
(* Time is counted in ticks of 1/TicksPerSecond second, so that the         *)
(* truncation int(time.time() + time_s) is visible.                         *)
(***************************************************************************)
EXTENDS Integers, Sequences, FiniteSets, TLC

VARIABLES
  devices,       \* application.devices: ieee -> device
  sequence,      \* the application's transaction sequence counter
  now,           \* time.time(), in ticks
  events,        \* what the last handler emitted: log lines, registry
                 \* notifications, cluster invocations, broadcasts
  last,          \* the last call: operation, receiver and arguments
  redispatched,  \* history: <<ieee, counter>> -> number of redispatches
  announced,     \* history: whether the announcement of the permit call
                 \* that set the expiry was delivered
  images,        \* application.ota: (manufacturer_id, image_type) -> image
  served,        \* history: the version of the image the last block that
                 \* was sent came from, None before the first
  tasks          \* the OTA coroutines in flight: client -> where the
                 \* coroutine stands and its local variables

vars ==
  <<devices, sequence, now, events, last, redispatched, announced, images, served,
    tasks>>

---------------------------------------------------------------------------
(* Bounds of the model *)
MaxTime == 2
TicksPerSecond == 2
MaxCounter == 1
MaxSequence == 2
MaxVersion == 2
MaxImageSize == 2

(* Constants of the program *)
None == -1
cluster_id == 33
endpoint_id == 242
Basic_cluster_id == 0
ATTR_joiningAllowUntil == 39319
ATTR_key == 39320
ATTR_counter == 39321
GP_NWK == 32766
COMMISSIONING_LENGTH == 12
COMMISSIONING_OPCODE == 224
MAX_PERMIT_TIME == 254
SEQUENCE_MODULUS == 256
Ota_cluster_id == 25

---------------------------------------------------------------------------
(* Python primitives *)

Min(a, b) == IF a < b THEN a ELSE b
Max(a, b) == IF a > b THEN a ELSE b

\* int.from_bytes(s, "little")
RECURSIVE from_bytes_little(_)
from_bytes_little(s) ==
  IF s = <<>> THEN 0 ELSE s[1] + 256 * from_bytes_little(Tail(s))

\* n.to_bytes(length, "little"), for 0 <= n < 256^length
RECURSIVE to_bytes_little(_, _)
to_bytes_little(n, length) ==
  IF length <= 0 THEN <<>>
  ELSE <<n % 256>> \o to_bytes_little(n \div 256, length - 1)

\* the sequence with the elements f[1], ..., f[n], computed once
Concrete(f) == f \o <<>>

Reverse(s) == Concrete([i \in 1..Len(s) |-> s[Len(s) + 1 - i]])

\* n.to_bytes(length, "big"), for 0 <= n < 256^length
to_bytes_big(n, length) == Reverse(to_bytes_little(n, length))

\* s[lo:hi] with Python's 0-based, end-exclusive, clamped indices;
\* a negative index counts from the end
PyIndex(i, n) == IF i < 0 THEN Max(n + i, 0) ELSE Min(i, n)
PySlice(s, lo, hi) == SubSeq(s, PyIndex(lo, Len(s)) + 1, PyIndex(hi, Len(s)))
PySliceFrom(s, lo) == SubSeq(s, PyIndex(lo, Len(s)) + 1, Len(s))

\* bytes * n: n copies, none when n <= 0
Repeat(b, n) == Concrete([i \in 1..Max(n, 0) |-> b])

RECURSIVE Xor(_, _)
Xor(a, b) ==
  IF a = 0 THEN b
  ELSE IF b = 0 THEN a
  ELSE (((a % 2) + (b % 2)) % 2) + 2 * Xor(a \div 2, b \div 2)

XorBytes(x, y) == Concrete([i \in 1..Min(Len(x), Len(y)) |-> Xor(x[i], y[i])])

\* a dict with the entry k: v added or replaced
DictSet(d, k, v) == (k :> v) @@ d
\* a dict with the key k deleted
DictDel(d, k) == [x \in DOMAIN d \ {k} |-> d[x]]
EmptyDict == <<>>

---------------------------------------------------------------------------
(* The static tables of GreenPowerProxy *)

command ==
  0 :> [command |-> "Identify", type |-> "CLUSTER_COMMAND",
         schema |-> <<>>,
         cluster_id |-> None, zcl_command_id |-> None, value |-> <<>>] @@
  16 :> [command |-> "Scene 0", type |-> "CLUSTER_COMMAND",
         schema |-> <<>>,
         cluster_id |-> 5, zcl_command_id |-> 1, value |-> <<0, 0>>] @@
  17 :> [command |-> "Scene 1", type |-> "CLUSTER_COMMAND",
         schema |-> <<>>,
         cluster_id |-> 5, zcl_command_id |-> 1, value |-> <<0, 1>>] @@
  18 :> [command |-> "Scene 2", type |-> "CLUSTER_COMMAND",
         schema |-> <<>>,
         cluster_id |-> 5, zcl_command_id |-> 1, value |-> <<0, 2>>] @@
  19 :> [command |-> "Scene 3", type |-> "CLUSTER_COMMAND",
         schema |-> <<>>,
         cluster_id |-> 5, zcl_command_id |-> 1, value |-> <<0, 3>>] @@
  20 :> [command |-> "Scene 4", type |-> "CLUSTER_COMMAND",
         schema |-> <<>>,
         cluster_id |-> 5, zcl_command_id |-> 1, value |-> <<0, 4>>] @@
  21 :> [command |-> "Scene 5", type |-> "CLUSTER_COMMAND",
         schema |-> <<>>,
         cluster_id |-> 5, zcl_command_id |-> 1, value |-> <<0, 5>>] @@
  23 :> [command |-> "Scene 7", type |-> "CLUSTER_COMMAND",
         schema |-> <<>>,
         cluster_id |-> 5, zcl_command_id |-> 1, value |-> <<0, 6>>] @@
  22 :> [command |-> "Scene 6", type |-> "CLUSTER_COMMAND",
         schema |-> <<>>,
         cluster_id |-> 5, zcl_command_id |-> 1, value |-> <<0, 7>>] @@
  24 :> [command |-> "Scene 8", type |-> "CLUSTER_COMMAND",
         schema |-> <<>>,
         cluster_id |-> 5, zcl_command_id |-> 1, value |-> <<0, 8>>] @@
  25 :> [command |-> "Scene 9", type |-> "CLUSTER_COMMAND",
         schema |-> <<>>,
         cluster_id |-> 5, zcl_command_id |-> 1, value |-> <<0, 9>>] @@
  26 :> [command |-> "Scene 10", type |-> "CLUSTER_COMMAND",
         schema |-> <<>>,
         cluster_id |-> 5, zcl_command_id |-> 1, value |-> <<0, 10>>] @@
  27 :> [command |-> "Scene 11", type |-> "CLUSTER_COMMAND",
         schema |-> <<>>,
         cluster_id |-> 5, zcl_command_id |-> 1, value |-> <<0, 11>>] @@
  28 :> [command |-> "Scene 12", type |-> "CLUSTER_COMMAND",
         schema |-> <<>>,
         cluster_id |-> 5, zcl_command_id |-> 1, value |-> <<0, 12>>] @@
  29 :> [command |-> "Scene 13", type |-> "CLUSTER_COMMAND",
         schema |-> <<>>,
         cluster_id |-> 5, zcl_command_id |-> 1, value |-> <<0, 13>>] @@
  30 :> [command |-> "Scene 14", type |-> "CLUSTER_COMMAND",
         schema |-> <<>>,
         cluster_id |-> 5, zcl_command_id |-> 1, value |-> <<0, 14>>] @@
  31 :> [command |-> "Scene 15", type |-> "CLUSTER_COMMAND",
         schema |-> <<>>,
         cluster_id |-> 5, zcl_command_id |-> 1, value |-> <<0, 15>>] @@
  32 :> [command |-> "Off", type |-> "CLUSTER_COMMAND",
         schema |-> <<>>,
         cluster_id |-> 6, zcl_command_id |-> 0, value |-> <<>>] @@
  33 :> [command |-> "On", type |-> "CLUSTER_COMMAND",
         schema |-> <<>>,
         cluster_id |-> 6, zcl_command_id |-> 1, value |-> <<>>] @@
  34 :> [command |-> "Toggle", type |-> "CLUSTER_COMMAND",
         schema |-> <<>>,
         cluster_id |-> 6, zcl_command_id |-> 2, value |-> <<>>] @@
  35 :> [command |-> "Release", type |-> "CLUSTER_COMMAND",
         schema |-> <<>>,
         cluster_id |-> None, zcl_command_id |-> None, value |-> <<>>] @@
  48 :> [command |-> "Move Up", type |-> "CLUSTER_COMMAND",
         schema |-> <<[size |-> 1, optional |-> FALSE]>>,
         cluster_id |-> 8, zcl_command_id |-> 1, value |-> <<1>>] @@
  49 :> [command |-> "Move Down", type |-> "CLUSTER_COMMAND",
         schema |-> <<[size |-> 1, optional |-> FALSE]>>,
         cluster_id |-> 8, zcl_command_id |-> 0, value |-> <<0>>] @@
  50 :> [command |-> "Step Up", type |-> "CLUSTER_COMMAND",
         schema |-> <<[size |-> 1, optional |-> FALSE], [size |-> 2, optional |-> TRUE]>>,
         cluster_id |-> 8, zcl_command_id |-> 2, value |-> <<1>>] @@
  51 :> [command |-> "Step Down", type |-> "CLUSTER_COMMAND",
         schema |-> <<[size |-> 1, optional |-> FALSE], [size |-> 2, optional |-> TRUE]>>,
         cluster_id |-> 8, zcl_command_id |-> 2, value |-> <<0>>] @@
  52 :> [command |-> "Level Control/Stop", type |-> "CLUSTER_COMMAND",
         schema |-> <<>>,
         cluster_id |-> 8, zcl_command_id |-> 7, value |-> <<>>] @@
  53 :> [command |-> "Move Up (with On/Off)", type |-> "CLUSTER_COMMAND",
         schema |-> <<[size |-> 1, optional |-> FALSE]>>,
         cluster_id |-> 8, zcl_command_id |-> 5, value |-> <<1>>] @@
  54 :> [command |-> "Move Down (with On/Off)", type |-> "CLUSTER_COMMAND",
         schema |-> <<[size |-> 1, optional |-> FALSE]>>,
         cluster_id |-> 8, zcl_command_id |-> 5, value |-> <<0>>] @@
  55 :> [command |-> "Step Up (with On/Off)", type |-> "CLUSTER_COMMAND",
         schema |-> <<[size |-> 1, optional |-> FALSE], [size |-> 2, optional |-> TRUE]>>,
         cluster_id |-> 8, zcl_command_id |-> 6, value |-> <<1>>] @@
  56 :> [command |-> "Step Down (with On/Off)", type |-> "CLUSTER_COMMAND",
         schema |-> <<[size |-> 1, optional |-> FALSE], [size |-> 2, optional |-> TRUE]>>,
         cluster_id |-> 8, zcl_command_id |-> 6, value |-> <<0>>] @@
  64 :> [command |-> "Move Hue Stop", type |-> "CLUSTER_COMMAND",
         schema |-> <<>>,
         cluster_id |-> 768, zcl_command_id |-> 71, value |-> <<>>] @@
  65 :> [command |-> "Move Hue Up Color", type |-> "CLUSTER_COMMAND",
         schema |-> <<[size |-> 1, optional |-> FALSE]>>,
         cluster_id |-> 768, zcl_command_id |-> 1, value |-> <<1>>] @@
  66 :> [command |-> "Move Hue Down Color", type |-> "CLUSTER_COMMAND",
         schema |-> <<[size |-> 1, optional |-> FALSE]>>,
         cluster_id |-> 768, zcl_command_id |-> 1, value |-> <<0>>] @@
  67 :> [command |-> "Step Hue Up Color", type |-> "CLUSTER_COMMAND",
         schema |-> <<[size |-> 1, optional |-> FALSE], [size |-> 2, optional |-> TRUE]>>,
         cluster_id |-> 768, zcl_command_id |-> 2, value |-> <<1>>] @@
  68 :> [command |-> "Step Hue Down Color", type |-> "CLUSTER_COMMAND",
         schema |-> <<[size |-> 1, optional |-> FALSE], [size |-> 2, optional |-> TRUE]>>,
         cluster_id |-> 768, zcl_command_id |-> 2, value |-> <<0>>] @@
  70 :> [command |-> "Move Saturation Up", type |-> "CLUSTER_COMMAND",
         schema |-> <<[size |-> 1, optional |-> FALSE]>>,
         cluster_id |-> 768, zcl_command_id |-> 4, value |-> <<1>>] @@
  71 :> [command |-> "Move Saturation Down", type |-> "CLUSTER_COMMAND",
         schema |-> <<[size |-> 1, optional |-> FALSE]>>,
         cluster_id |-> 768, zcl_command_id |-> 4, value |-> <<0>>] @@
  72 :> [command |-> "Step Saturation Up", type |-> "CLUSTER_COMMAND",
         schema |-> <<[size |-> 1, optional |-> FALSE]>>,
         cluster_id |-> 768, zcl_command_id |-> 5, value |-> <<1>>] @@
  73 :> [command |-> "Step Saturation Down", type |-> "CLUSTER_COMMAND",
         schema |-> <<[size |-> 1, optional |-> FALSE]>>,
         cluster_id |-> 768, zcl_command_id |-> 5, value |-> <<0>>] @@
  74 :> [command |-> "Move Color", type |-> "CLUSTER_COMMAND",
         schema |-> <<[size |-> 2, optional |-> FALSE], [size |-> 2, optional |-> FALSE]>>,
         cluster_id |-> 768, zcl_command_id |-> 8, value |-> <<>>] @@
  75 :> [command |-> "Step Color", type |-> "CLUSTER_COMMAND",
         schema |-> <<[size |-> 2, optional |-> FALSE], [size |-> 2, optional |-> FALSE], [size |-> 2, optional |-> TRUE]>>,
         cluster_id |-> 768, zcl_command_id |-> 9, value |-> <<>>] @@
  69 :> [command |-> "Move Saturation Stop", type |-> "CLUSTER_COMMAND",
         schema |-> <<>>,
         cluster_id |-> 768, zcl_command_id |-> 71, value |-> <<>>] @@
  80 :> [command |-> "Lock Door", type |-> "CLUSTER_COMMAND",
         schema |-> <<>>,
         cluster_id |-> 257, zcl_command_id |-> 0, value |-> <<>>] @@
  81 :> [command |-> "Unlock Door", type |-> "CLUSTER_COMMAND",
         schema |-> <<>>,
         cluster_id |-> 257, zcl_command_id |-> 1, value |-> <<>>] @@
  96 :> [command |-> "Press 1 of 1", type |-> "CLUSTER_COMMAND",
         schema |-> <<>>,
         cluster_id |-> None, zcl_command_id |-> None, value |-> <<>>] @@
  97 :> [command |-> "Release 1 of 1", type |-> "CLUSTER_COMMAND",
         schema |-> <<>>,
         cluster_id |-> None, zcl_command_id |-> None, value |-> <<>>] @@
  98 :> [command |-> "Press 1 of 2", type |-> "CLUSTER_COMMAND",
         schema |-> <<>>,
         cluster_id |-> None, zcl_command_id |-> None, value |-> <<>>] @@
  99 :> [command |-> "Release 1 of 2", type |-> "CLUSTER_COMMAND",
         schema |-> <<>>,
         cluster_id |-> None, zcl_command_id |-> None, value |-> <<>>] @@
  100 :> [command |-> "Press 2 of 2", type |-> "CLUSTER_COMMAND",
         schema |-> <<>>,
         cluster_id |-> None, zcl_command_id |-> None, value |-> <<>>] @@
  101 :> [command |-> "Release 2 of 2", type |-> "CLUSTER_COMMAND",
         schema |-> <<>>,
         cluster_id |-> None, zcl_command_id |-> None, value |-> <<>>] @@
  102 :> [command |-> "Short press 1 of 1", type |-> "CLUSTER_COMMAND",
         schema |-> <<>>,
         cluster_id |-> None, zcl_command_id |-> None, value |-> <<>>] @@
  103 :> [command |-> "Short press 1 of 2", type |-> "CLUSTER_COMMAND",
         schema |-> <<>>,
         cluster_id |-> None, zcl_command_id |-> None, value |-> <<>>] @@
  104 :> [command |-> "Short press 2 of 2", type |-> "CLUSTER_COMMAND",
         schema |-> <<>>,
         cluster_id |-> None, zcl_command_id |-> None, value |-> <<>>] @@
  105 :> [command |-> "Press", type |-> "CLUSTER_COMMAND",
         schema |-> <<[size |-> 1, optional |-> FALSE]>>,
         cluster_id |-> 5, zcl_command_id |-> 1, value |-> <<0>>] @@
  106 :> [command |-> "Release", type |-> "CLUSTER_COMMAND",
         schema |-> <<[size |-> 1, optional |-> FALSE]>>,
         cluster_id |-> None, zcl_command_id |-> None, value |-> <<>>]

device ==
  0 :> [name |-> "Simple Generic 1-state Switch", in_clusters |-> <<>>,
         out_clusters |-> <<6>>] @@
  1 :> [name |-> "Simple Generic 2-state Switch", in_clusters |-> <<>>,
         out_clusters |-> <<6>>] @@
  2 :> [name |-> "On/Off Switch", in_clusters |-> <<>>,
         out_clusters |-> <<5, 6>>] @@
  3 :> [name |-> "Level Control Switch", in_clusters |-> <<>>,
         out_clusters |-> <<8>>] @@
  4 :> [name |-> "Simple Sensor", in_clusters |-> <<>>,
         out_clusters |-> <<>>] @@
  5 :> [name |-> "Advanced Generic 1-state Switch", in_clusters |-> <<>>,
         out_clusters |-> <<5, 6>>] @@
  6 :> [name |-> "Advanced Generic 2-state Switch", in_clusters |-> <<>>,
         out_clusters |-> <<5, 6>>] @@
  7 :> [name |-> "On/Off Switch", in_clusters |-> <<>>,
         out_clusters |-> <<5, 6>>] @@
  16 :> [name |-> "Color Dimmer Switch", in_clusters |-> <<>>,
         out_clusters |-> <<768>>] @@
  17 :> [name |-> "Light Sensor", in_clusters |-> <<1024>>,
         out_clusters |-> <<>>] @@
  18 :> [name |-> "Occupancy Sensor", in_clusters |-> <<1030>>,
         out_clusters |-> <<>>] @@
  32 :> [name |-> "Door Lock Controller", in_clusters |-> <<>>,
         out_clusters |-> <<257>>] @@
  48 :> [name |-> "Temperature Sensor", in_clusters |-> <<1026>>,
         out_clusters |-> <<>>] @@
  49 :> [name |-> "Pressure Sensor", in_clusters |-> <<1027>>,
         out_clusters |-> <<>>] @@
  50 :> [name |-> "Flow Sensor", in_clusters |-> <<1028>>,
         out_clusters |-> <<>>] @@
  51 :> [name |-> "Indoor Environment Sensor", in_clusters |-> <<>>,
         out_clusters |-> <<>>]

---------------------------------------------------------------------------
(* Events a handler emits *)

Event(kind, msg, dev, cluster, cmd, args, tsn) ==
  [command |-> cmd, kind |-> kind, msg |-> msg, dev |-> dev,
   cluster |-> cluster, args |-> args, tsn |-> tsn]

\* LOGGER.debug(msg, ...)
LogDebug(msg) == Event("log", msg, <<>>, None, None, <<>>, None)

Result(devs, seq, evs, raised, ret) ==
  [devices |-> devs, sequence |-> seq, events |-> evs, raised |-> raised,
   ret |-> ret]

---------------------------------------------------------------------------
(* Devices, endpoints and clusters of the device registry.  A cluster is   *)
(* represented by its _attr_cache; in_clusters maps a cluster id to it,    *)
(* out_clusters is the set of keys of the endpoint's out_clusters dict.    *)

\* Cluster._update_attribute(attrid, value): stores the value in the cache
\* under attrid.  The code calls it on clusters (Basic, the proxy cluster) and
\* on the proxy cluster's attribute cache.
_update_attribute(attr_cache, attrid, value) == DictSet(attr_cache, attrid, value)

\* application.add_device(ieee, nwk): a device without endpoints, registered
add_device(devs, ieee, nwk) ==
  DictSet(devs, ieee, [nwk |-> nwk, status |-> "NEW", endpoints |-> EmptyDict])

\* dev.add_endpoint(endpoint_id)
add_endpoint(dev, epid) ==
  [dev EXCEPT !.endpoints =
     DictSet(@, epid, [in_clusters |-> EmptyDict, out_clusters |-> {},
                       status |-> "NEW"])]

\* ep.add_input_cluster(cluster_id): an existing cluster is kept
add_input_cluster(ep, cid) ==
  IF cid \in DOMAIN ep.in_clusters THEN ep
  ELSE [ep EXCEPT !.in_clusters = DictSet(@, cid, EmptyDict)]

\* ep.add_output_cluster(cluster_id)
add_output_cluster(ep, cid) == [ep EXCEPT !.out_clusters = @ \cup {cid}]

RECURSIVE add_input_clusters(_, _)
add_input_clusters(ep, cids) ==
  IF cids = <<>> THEN ep
  ELSE add_input_clusters(add_input_cluster(ep, Head(cids)), Tail(cids))

RECURSIVE add_output_clusters(_, _)
add_output_clusters(ep, cids) ==
  IF cids = <<>> THEN ep
  ELSE add_output_clusters(add_output_cluster(ep, Head(cids)), Tail(cids))

\* application.get_sequence(): the next transaction sequence number
get_sequence(seq) == (seq + 1) % SEQUENCE_MODULUS

\* the proxy cluster's attribute cache of the device registered under ieee
ProxyCache(devs, ieee) ==
  devs[ieee].endpoints[endpoint_id].in_clusters[cluster_id]

\* time.time() is after the whole second `seconds`
TimeAfter(seconds) == seconds * TicksPerSecond < now

\* the gate of create_device: not in permit joining mode
NotInPermitJoiningMode(attr_cache) ==
  \/ ATTR_joiningAllowUntil \notin DOMAIN attr_cache
  \/ TimeAfter(attr_cache[ATTR_joiningAllowUntil])


\* variant: only the output clusters of the type are added to endpoint 1
BasicEndpoint_OutputOnly(type) ==
  LET ep0 == [in_clusters |-> EmptyDict, out_clusters |-> {},
              status |-> "ZDO_INIT"]
      ep1 == add_input_cluster(ep0, Basic_cluster_id)
      ep2 == [ep1 EXCEPT !.in_clusters[Basic_cluster_id] =
                _update_attribute(@, 4, "GreenPower")]
  IN IF type # None /\ type \in DOMAIN device
     THEN LET ep3 == [ep2 EXCEPT !.in_clusters[Basic_cluster_id] =
                        _update_attribute(@, 5, device[type].name)]
          IN add_output_clusters(ep3, device[type].out_clusters)
     ELSE [ep2 EXCEPT !.in_clusters[Basic_cluster_id] =
             _update_attribute(@, 5, "GreenPowerDevice")]

\* endpoint 1 of a new device: Basic cluster, label, the type's clusters
BasicEndpoint(type) ==
  LET ep0 == [in_clusters |-> EmptyDict, out_clusters |-> {},
              status |-> "ZDO_INIT"]
      ep1 == add_input_cluster(ep0, Basic_cluster_id)
      ep2 == [ep1 EXCEPT !.in_clusters[Basic_cluster_id] =
                _update_attribute(@, 4, "GreenPower")]
  IN IF type # None /\ type \in DOMAIN device
     THEN LET ep3 == [ep2 EXCEPT !.in_clusters[Basic_cluster_id] =
                        _update_attribute(@, 5, device[type].name)]
              ep4 == add_input_clusters(ep3, device[type].in_clusters)
          IN add_output_clusters(ep4, device[type].out_clusters)
     ELSE [ep2 EXCEPT !.in_clusters[Basic_cluster_id] =
             _update_attribute(@, 5, "GreenPowerDevice")]

\* endpoint 242 of a new device: the proxy cluster
ProxyEndpoint ==
  add_input_cluster([in_clusters |-> EmptyDict, out_clusters |-> {},
                     status |-> "ZDO_INIT"], cluster_id)

\* variant: the device is registered with endpoint 1 only
NewDevice_NoProxyEndpoint(devs, ieee, type) ==
  LET devs0 == add_device(devs, ieee, GP_NWK)
      dev0 == [devs0[ieee] EXCEPT !.status = "ENDPOINTS_INIT"]
      dev1 == [add_endpoint(dev0, 1) EXCEPT !.endpoints[1] = BasicEndpoint(type)]
  IN [devs0 EXCEPT ![ieee] = dev1]

\* the device create_device builds under ieee, in the order of the code
NewDevice(devs, ieee, type) ==
  LET devs0 == add_device(devs, ieee, GP_NWK)
      dev0 == [devs0[ieee] EXCEPT !.status = "ENDPOINTS_INIT"]
      dev1 == [add_endpoint(dev0, 1) EXCEPT !.endpoints[1] = BasicEndpoint(type)]
      dev2 == [add_endpoint(dev1, endpoint_id) EXCEPT
                 !.endpoints[endpoint_id] = ProxyEndpoint]
  IN [devs0 EXCEPT ![ieee] = dev2]

\* variant: the window is closed once a device came in through it
create_device_WindowClosed(devs, seq, self, ieee, type, remoteCommissioning) ==
  IF ieee \in DOMAIN devs
  THEN Result(devs, seq, <<>>, "", <<ieee>>)
  ELSE IF ~remoteCommissioning /\ NotInPermitJoiningMode(ProxyCache(devs, self))
  THEN Result(devs, seq,
              <<LogDebug("Not in permit joining mode and not in remoteCommissioning")>>,
              "", <<>>)
  ELSE Result([NewDevice(devs, ieee, type) EXCEPT
                 ![self].endpoints[endpoint_id].in_clusters[cluster_id] =
                    DictDel(@, ATTR_joiningAllowUntil)],
              seq,
              << LogDebug("Device not found, create it"),
                 Event("device_initialized", "", ieee, None, None, <<>>, None) >>,
              "", <<ieee>>)

\* variant: the registry is not asked whether the identity is known
create_device_NoLookup(devs, seq, self, ieee, type, remoteCommissioning) ==
  IF ~remoteCommissioning /\ NotInPermitJoiningMode(ProxyCache(devs, self))
  THEN Result(devs, seq,
              <<LogDebug("Not in permit joining mode and not in remoteCommissioning")>>,
              "", <<>>)
  ELSE Result(NewDevice(devs, ieee, type), seq,
              << LogDebug("Device not found, create it"),
                 Event("device_initialized", "", ieee, None, None, <<>>, None) >>,
              "", <<ieee>>)

\* variant: the new device is not announced to the registry
create_device_Unannounced(devs, seq, self, ieee, type, remoteCommissioning) ==
  IF ieee \in DOMAIN devs
  THEN Result(devs, seq, <<>>, "", <<ieee>>)
  ELSE IF ~remoteCommissioning /\ NotInPermitJoiningMode(ProxyCache(devs, self))
  THEN Result(devs, seq,
              <<LogDebug("Not in permit joining mode and not in remoteCommissioning")>>,
              "", <<>>)
  ELSE Result(NewDevice(devs, ieee, type), seq,
              <<LogDebug("Device not found, create it")>>, "", <<ieee>>)

\* GreenPowerProxy.create_device(self, ieee, type, remoteCommissioning);
\* self is the ieee of the device whose proxy cluster receives the call.
\* ret is <<ieee>> for the device returned, <<>> for None.
create_device(devs, seq, self, ieee, type, remoteCommissioning) ==
  IF ieee \in DOMAIN devs
  THEN Result(devs, seq, <<>>, "", <<ieee>>)
  ELSE IF ~remoteCommissioning /\ NotInPermitJoiningMode(ProxyCache(devs, self))
  THEN Result(devs, seq,
              <<LogDebug("Not in permit joining mode and not in remoteCommissioning")>>,
              "", <<>>)
  ELSE Result(NewDevice(devs, ieee, type), seq,
              << LogDebug("Device not found, create it"),
                 Event("device_initialized", "", ieee, None, None, <<>>, None) >>,
              "", <<ieee>>)

---------------------------------------------------------------------------
(* Message integrity code *)

\* Stand-in for one AES block encryption under key (Crypto.Cipher.AES is an
\* external library): a keyed mixing of all 16 bytes of the block.  Its
\* bytes stay below 128, so that a 4-byte MIC is below 2^31.
RECURSIVE WeightedSum(_, _, _)
WeightedSum(block, key, j) ==
  IF j = 0 THEN 0
  ELSE j * (block[j] + 3 * key[j]) + WeightedSum(block, key, j - 1)

AES_encrypt_block(key, block) ==
  LET s == WeightedSum(block, key, 16)
  IN Concrete([i \in 1..16 |-> (s + 17 * i + key[i]) % 128])

\* AES.new(key, AES.MODE_CBC, iv).encrypt(block), one block
CBC_encrypt(key, iv, block) == AES_encrypt_block(key, XorBytes(block, iv))

\* AES.new(key, AES.MODE_CTR, counter=A0).encrypt(data), len(data) <= 16
CTR_encrypt(key, A0, data) ==
  XorBytes(data, PySlice(AES_encrypt_block(key, A0), 0, Len(data)))

\* the blocks calcul_mic builds from the frame fields (all bytes)
Nonce(src_id, counter) == src_id \o src_id \o counter \o <<5>>
AddAuthData(src_id, header, counter, payload) ==
  LET a == header \o src_id \o counter \o payload
      La == to_bytes_big(Len(a), 2)
  IN (La \o a) \o Repeat(0, 16 - Len(La \o a))
BlockB0(src_id, counter) ==
  LET B0 == <<73>> \o Nonce(src_id, counter) IN B0 \o Repeat(0, 16 - Len(B0))
BlockA0(src_id, counter) == <<1>> \o Nonce(src_id, counter) \o to_bytes_big(0, 2)

\* AES.new accepts the key and the initialisation vector
ValidKey(key) == Len(key) \in {16, 24, 32}
ValidIV(iv) == Len(iv) = 16

\* the MIC of calcul_mic once the key is known; ValueError when AES.new
\* rejects the key or a block used as initialisation vector
ComputeMic(key, src_id, header, counter, payload) ==
  LET B0 == BlockB0(src_id, counter)
      B1 == AddAuthData(src_id, header, counter, payload)
      X0 == to_bytes_big(0, 16)
  IN IF ~ValidKey(key) \/ ~ValidIV(B0) \/ ~ValidIV(B1)
     THEN [raised |-> "ValueError", ret |-> None]
     ELSE LET X1 == CBC_encrypt(key, B0, X0)
              X2 == CBC_encrypt(key, B1, X1)
              A0 == BlockA0(src_id, counter)
          IN [raised |-> "",
              ret |-> from_bytes_little(CTR_encrypt(key, A0, PySlice(X2, 0, 4)))]

\* 4-byte source identities: of the devices that get commissioned, and of
\* all senders of data frames
CommissionedSrcIds == {<<1, 2, 3, 4>>}
SrcIds == CommissionedSrcIds \cup {<<5, 6, 7, 8>>}

\* shared keys: Key1 also as the integer whose 16 big-endian bytes it is
KeyInt1 == 513
Key1 == to_bytes_big(KeyInt1, 16)
Key2 == Concrete([i \in 1..16 |-> i])

FrameHeaders == {<<140, 48>>}
FrameCounters == 0..MaxCounter
\* command id and payload: On, Identify (no target cluster), an unknown id,
\* Move Up without its uint8 argument
FrameBodies == { <<33, <<>>>>, <<0, <<>>>>, <<153, <<>>>>, <<48, <<>>>> }
\* Move Up with the rate 5
PayloadBodies == { <<48, <<5>>>> }

\* ComputeMic on the fields of the frames that are sent, computed once
MicMemo ==
  [x \in { <<k, s, h, to_bytes_little(c, 4), <<b[1]>> \o b[2]>> :
             k \in {Key1, Key2}, s \in SrcIds, h \in FrameHeaders,
             c \in FrameCounters \cup {0, 1}, b \in FrameBodies \cup PayloadBodies }
     |-> ComputeMic(x[1], x[2], x[3], x[4], x[5])] @@ EmptyDict

MicUnderKey(key, src_id, header, counter, payload) ==
  LET x == <<key, src_id, header, counter, payload>>
  IN IF x \in DOMAIN MicMemo THEN MicMemo[x]
     ELSE ComputeMic(key, src_id, header, counter, payload)

\* variant: no MIC is computed whether or not a key is provisioned
calcul_mic_Skipped(devs, ieee, header, counter, payload, payload_length) ==
  [raised |-> "", ret |-> None]

\* variant: without a key the frame must carry a MIC of zero
calcul_mic_KeyRequired(devs, ieee, header, counter, payload, payload_length) ==
  IF ieee \notin DOMAIN devs THEN [raised |-> "", ret |-> None]
  ELSE IF ATTR_key \notin DOMAIN ProxyCache(devs, ieee)
  THEN [raised |-> "", ret |-> 0]
  ELSE MicUnderKey(ProxyCache(devs, ieee)[ATTR_key], PySlice(ieee, 0, 4),
                   to_bytes_little(header, 2), to_bytes_little(counter, 4),
                   payload)

\* GreenPowerProxy.calcul_mic(self, ieee, header, counter, payload,
\* payload_length): header and counter are integers, payload is bytes
calcul_mic(devs, ieee, header, counter, payload, payload_length) ==
  IF ieee \notin DOMAIN devs THEN [raised |-> "", ret |-> None]
  ELSE IF ATTR_key \notin DOMAIN ProxyCache(devs, ieee)
  THEN [raised |-> "", ret |-> None]
  ELSE MicUnderKey(ProxyCache(devs, ieee)[ATTR_key], PySlice(ieee, 0, 4),
                   to_bytes_little(header, 2), to_bytes_little(counter, 4),
                   payload)

---------------------------------------------------------------------------
(* Command translation *)

\* t.deserialize(data, schema): the values of the schema's types read from
\* data in order, little-endian; trailing optional types are read while bytes
\* remain; too few bytes for a required type is a ValueError
RECURSIVE deserialize(_, _)
deserialize(data, schema) ==
  IF schema = <<>> THEN [raised |-> "", values |-> <<>>, rest |-> data]
  ELSE LET ty == Head(schema) IN
    IF Len(data) < ty.size
    THEN IF ty.optional
         THEN [raised |-> "", values |-> <<>>, rest |-> <<>>]
         ELSE [raised |-> "ValueError", values |-> <<>>, rest |-> data]
    ELSE LET more == deserialize(PySliceFrom(data, ty.size), Tail(schema))
         IN [raised |-> more.raised,
             values |-> <<from_bytes_little(PySlice(data, 0, ty.size))>>
                          \o more.values,
             rest |-> more.rest]

\* variant: a frame whose counter equals the stored counter passes
AlreadyGot_Strict(attributes, counter) ==
  ATTR_counter \in DOMAIN attributes /\ attributes[ATTR_counter] > counter

\* variant: no stored counter stops a frame
AlreadyGot_Never(attributes, counter) == FALSE

\* the stored replay counter of the frame's device is at or past counter
AlreadyGot(attributes, counter) ==
  ATTR_counter \in DOMAIN attributes /\ attributes[ATTR_counter] >= counter

\* variant: the counter of an accepted frame is not stored
ReplayGuard_NoStore(devs, self_cluster_id, ieee, counter) ==
  IF counter = None THEN [replay |-> FALSE, devices |-> devs]
  ELSE [replay |-> AlreadyGot(devs[ieee].endpoints[endpoint_id]
                                .in_clusters[self_cluster_id], counter),
        devices |-> devs]


\* variant: the counter of a frame is compared with the counters of all
\* devices
ReplayGuard_SharedCounter(devs, self_cluster_id, ieee, counter) ==
  IF counter = None THEN [replay |-> FALSE, devices |-> devs]
  ELSE LET holders ==
             { i \in DOMAIN devs :
                 /\ endpoint_id \in DOMAIN devs[i].endpoints
                 /\ self_cluster_id
                      \in DOMAIN devs[i].endpoints[endpoint_id].in_clusters }
       IN IF \E i \in holders :
               AlreadyGot(devs[i].endpoints[endpoint_id].in_clusters[self_cluster_id],
                          counter)
          THEN [replay |-> TRUE, devices |-> devs]
          ELSE [replay |-> FALSE,
                devices |-> [devs EXCEPT
                  ![ieee].endpoints[endpoint_id].in_clusters[self_cluster_id] =
                     _update_attribute(@, ATTR_counter, counter)]]

\* lines 1639-1646: the replay check and the counter update;
\* replay is TRUE when the frame is dropped as a replay
ReplayGuard(devs, self_cluster_id, ieee, counter) ==
  IF counter = None THEN [replay |-> FALSE, devices |-> devs]
  ELSE LET attributes ==
             devs[ieee].endpoints[endpoint_id].in_clusters[self_cluster_id]
       IN IF AlreadyGot(attributes, counter)
          THEN [replay |-> TRUE, devices |-> devs]
          ELSE [replay |-> FALSE,
                devices |-> [devs EXCEPT
                  ![ieee].endpoints[endpoint_id].in_clusters[self_cluster_id] =
                     _update_attribute(@, ATTR_counter, counter)]]

\* variant: the registry is notified at every redispatch
Redispatch_Renotified(devs, seq, ieee, entry, value) ==
  IF entry.cluster_id # None /\ entry.type = "CLUSTER_COMMAND"
  THEN LET tsn == get_sequence(seq)
       IN Result([devs EXCEPT ![ieee].endpoints[1] =
                    add_output_cluster(@, entry.cluster_id)],
                 tsn,
                 << Event("add_output_cluster", "", ieee, entry.cluster_id,
                          None, <<>>, None),
                    Event("device_initialized", "", ieee, None, None, <<>>, None),
                    Event("cluster_command", "", ieee, entry.cluster_id,
                          entry.zcl_command_id, value, tsn) >>,
                 "", <<>>)
  ELSE Result(devs, seq, <<>>, "", <<>>)

\* variant: an entry without a target cluster is redispatched as well
Redispatch_Untargeted(devs, seq, ieee, entry, value) ==
  LET tsn == get_sequence(seq)
  IN Result(devs, tsn,
            << Event("cluster_command", "", ieee, entry.cluster_id,
                     entry.zcl_command_id, value, tsn) >>,
            "", <<>>)

\* variant: an accepted frame is not handed to the output cluster
Redispatch_Nothing(devs, seq, ieee, entry, value) ==
  Result(devs, seq, <<>>, "", <<>>)

\* lines 1647-1656: redispatch to the output cluster of endpoint 1
Redispatch(devs, seq, ieee, entry, value) ==
  IF entry.cluster_id # None /\ entry.type = "CLUSTER_COMMAND"
  THEN LET missing == entry.cluster_id \notin devs[ieee].endpoints[1].out_clusters
           devs1 == IF missing
                    THEN [devs EXCEPT ![ieee].endpoints[1] =
                            add_output_cluster(@, entry.cluster_id)]
                    ELSE devs
           added == IF missing
                    THEN << Event("add_output_cluster", "", ieee,
                                  entry.cluster_id, None, <<>>, None),
                            Event("device_initialized", "", ieee, None, None,
                                  <<>>, None) >>
                    ELSE <<>>
           tsn == get_sequence(seq)
       IN Result(devs1, tsn,
                 added \o << Event("cluster_command", "", ieee, entry.cluster_id,
                                   entry.zcl_command_id, value, tsn) >>,
                 "", <<>>)
  ELSE Result(devs, seq, <<>>, "", <<>>)

\* variant: a device is created for the unknown identity
UnknownDevice_Created(devs, seq, ieee) ==
  Result(NewDevice(devs, ieee, None), seq,
         <<Event("device_initialized", "", ieee, None, None, <<>>, None)>>,
         "", <<>>)

\* lines 1603-1604: a frame of an identity that is not registered
UnknownDevice(devs, seq, ieee) == Result(devs, seq, <<>>, "", <<>>)

\* variant: the counter of a frame with an unknown command id is stored
UnhandledCommand_Counted(devs, seq, ieee, counter) ==
  Result(ReplayGuard(devs, cluster_id, ieee, counter).devices, seq,
         <<LogDebug("Unhandled command_id")>>, "", <<>>)

\* lines 1605-1607: a command id that is not a key of the command table
UnhandledCommand(devs, seq, ieee, counter) ==
  Result(devs, seq, <<LogDebug("Unhandled command_id")>>, "", <<>>)

\* variant: the payload's values come before the entry's fixed values
ArgumentTuple_PayloadFirst(entry, values) == values \o entry.value

\* line 1637: value = value + tuple(payload)
ArgumentTuple(entry, values) == entry.value \o values


\* variant: the replay counter is compared and stored before the payload
\* is read
handle_notification_CounterFirst(devs, seq, ieee, header, counter, command_id, payload, payload_length, mic) ==
  IF ieee \notin DOMAIN devs THEN UnknownDevice(devs, seq, ieee)
  ELSE IF command_id \notin DOMAIN command
  THEN UnhandledCommand(devs, seq, ieee, counter)
  ELSE
    LET payload_bytes == to_bytes_little(payload, payload_length)
        calc == calcul_mic(devs, ieee, header, counter,
                           to_bytes_little(command_id, 1) \o payload_bytes,
                           payload_length + 1)
    IN IF calc.raised # "" THEN Result(devs, seq, <<>>, calc.raised, <<>>)
       ELSE IF calc.ret # None /\ calc.ret # mic
       THEN Result(devs, seq, <<LogDebug("Wrong mic, ignore frame")>>, "", <<>>)
       ELSE
         LET entry == command[command_id]
             guard == ReplayGuard(devs, cluster_id, ieee, counter)
             des == deserialize(payload_bytes, entry.schema)
         IN IF guard.replay
            THEN Result(devs, seq,
                   <<LogDebug("Already get this frame counter,I ignoring it")>>,
                   "", <<>>)
            ELSE IF des.raised # ""
            THEN Result(guard.devices, seq, <<>>, des.raised, <<>>)
            ELSE LET r == Redispatch(guard.devices, seq, ieee, entry,
                                     ArgumentTuple(entry, des.values))
                 IN [r EXCEPT !.events = <<LogDebug("Green power frame")>> \o @]

\* GreenPowerProxy.handle_notification(self, ieee, header, counter,
\* command_id, payload, payload_length, mic)
handle_notification(devs, seq, ieee, header, counter, command_id, payload, payload_length, mic) ==
  IF ieee \notin DOMAIN devs THEN UnknownDevice(devs, seq, ieee)
  ELSE IF command_id \notin DOMAIN command
  THEN UnhandledCommand(devs, seq, ieee, counter)
  ELSE
    LET payload_bytes == to_bytes_little(payload, payload_length)
        calc == calcul_mic(devs, ieee, header, counter,
                           to_bytes_little(command_id, 1) \o payload_bytes,
                           payload_length + 1)
    IN IF calc.raised # "" THEN Result(devs, seq, <<>>, calc.raised, <<>>)
       ELSE IF calc.ret # None /\ calc.ret # mic
       THEN Result(devs, seq, <<LogDebug("Wrong mic, ignore frame")>>, "", <<>>)
       ELSE
         LET entry == command[command_id]
             des == deserialize(payload_bytes, entry.schema)
         IN IF des.raised # "" THEN Result(devs, seq, <<>>, des.raised, <<>>)
            ELSE
              LET value == ArgumentTuple(entry, des.values)
                  guard == ReplayGuard(devs, cluster_id, ieee, counter)
              IN IF guard.replay
                 THEN Result(devs, seq,
                        <<LogDebug("Green power frame"),
                          LogDebug("Already get this frame counter,I ignoring it")>>,
                        "", <<>>)
                 ELSE LET r == Redispatch(guard.devices, seq, ieee, entry, value)
                      IN [r EXCEPT !.events = <<LogDebug("Green power frame")>> \o @]

\* variant: the bytes after the device type are taken for a counter, which
\* is stored for a device that is registered
Commissioning_Counted(devs, seq, self, data) ==
  LET ieee == PySlice(data, 1, 5) \o PySlice(data, 1, 5)
      r == create_device(devs, seq, self, ieee, data[7], FALSE)
  IN IF ieee \in DOMAIN devs
     THEN [r EXCEPT !.ret = <<>>,
                    !.devices = ReplayGuard(devs, cluster_id, ieee,
                                  from_bytes_little(PySlice(data, 7, 11))).devices]
     ELSE [r EXCEPT !.ret = <<>>]

\* lines 1661-1664: a commissioning frame goes to create_device with the
\* doubled identity and the device type, and to nothing else
Commissioning(devs, seq, self, data) ==
  LET ieee == PySlice(data, 1, 5) \o PySlice(data, 1, 5)
      type == data[7]
      r == create_device(devs, seq, self, ieee, type, FALSE)
  IN [r EXCEPT !.ret = <<>>]

\* GreenPowerProxy.handle_message(self, data), data the frame's bytes.
\* Indexing past the end of data is an IndexError.
handle_message(devs, seq, self, data) ==
  IF Len(data) < 1 THEN Result(devs, seq, <<>>, "IndexError", <<>>)
  ELSE IF data[1] = COMMISSIONING_LENGTH /\ Len(data) < 6
  THEN Result(devs, seq, <<>>, "IndexError", <<>>)
  ELSE IF data[1] = COMMISSIONING_LENGTH /\ data[6] = COMMISSIONING_OPCODE
  THEN IF Len(data) < 7 THEN Result(devs, seq, <<>>, "IndexError", <<>>)
       ELSE Commissioning(devs, seq, self, data)
  ELSE IF Len(data) < 11 THEN Result(devs, seq, <<>>, "IndexError", <<>>)
  ELSE
    LET ieee == PySlice(data, 2, 6) \o PySlice(data, 2, 6)
        counter == from_bytes_little(PySlice(data, 6, 10))
        command_id == data[11]
        payload_length == Len(PySlice(data, 11, -4))
        payload == from_bytes_little(PySlice(data, 11, -4))
        mic == from_bytes_little(PySliceFrom(data, -4))
        header == from_bytes_little(PySlice(data, 0, 2))
    IN handle_notification(devs, seq, ieee, header, counter, command_id,
                           payload, payload_length, mic)

---------------------------------------------------------------------------
(* Administrative operations *)


\* setKey as it would be if provisioning a key also forgot the device's
\* replay counter
setKey_CounterReset(devs, seq, self, key) ==
  LET attr_cache == ProxyCache(devs, self) IN
  IF key.none
  THEN IF ATTR_key \notin DOMAIN attr_cache
       THEN Result(devs, seq, <<>>, "KeyError", <<>>)
       ELSE Result([devs EXCEPT
                      ![self].endpoints[endpoint_id].in_clusters[cluster_id] =
                         DictDel(@, ATTR_key)],
                   seq, <<>>, "", <<>>)
  ELSE LET bytes == IF key.int # None THEN to_bytes_big(key.int, 16)
                    ELSE key.bytes
       IN Result([devs EXCEPT
                    ![self].endpoints[endpoint_id].in_clusters[cluster_id] =
                       _update_attribute(
                         [a \in DOMAIN @ \ {ATTR_counter} |-> @[a]],
                         ATTR_key, bytes)],
                 seq, <<>>, "", <<>>)

\* GreenPowerProxy.setKey(self, key); key is [none, int, bytes]: None, an
\* integer (int # None) or bytes
setKey(devs, seq, self, key) ==
  LET attr_cache == ProxyCache(devs, self) IN
  IF key.none
  THEN IF ATTR_key \notin DOMAIN attr_cache
       THEN Result(devs, seq, <<>>, "KeyError", <<>>)
       ELSE Result([devs EXCEPT
                      ![self].endpoints[endpoint_id].in_clusters[cluster_id] =
                         DictDel(@, ATTR_key)],
                   seq, <<>>, "", <<>>)
  ELSE LET bytes == IF key.int # None THEN to_bytes_big(key.int, 16)
                    ELSE key.bytes
       IN Result([devs EXCEPT
                    ![self].endpoints[endpoint_id].in_clusters[cluster_id] =
                       _update_attribute(@, ATTR_key, bytes)],
                 seq, <<>>, "", <<>>)

\* int(time.time() + time_s): whole seconds
AllowUntil(time_s) == (now + time_s * TicksPerSecond) \div TicksPerSecond

\* variant: a failed broadcast takes the expiry back
permit_RolledBack(devs, seq, self, time_s, sent) ==
  IF ~(0 <= time_s /\ time_s <= MAX_PERMIT_TIME)
  THEN Result(devs, seq, <<>>, "AssertionError", <<>>)
  ELSE
    LET devs1 == [devs EXCEPT
                    ![self].endpoints[endpoint_id].in_clusters[cluster_id] =
                       DictSet(@, ATTR_joiningAllowUntil, AllowUntil(time_s))]
        tsn == get_sequence(seq)
        bcast == Event("broadcast", "", self, cluster_id, 2, <<11, time_s>>, tsn)
    IN Result(IF sent THEN devs1 ELSE devs, tsn,
              <<LogDebug("Permit green power pairing"), bcast>>,
              IF sent THEN "" ELSE "DeliveryError", <<>>)

\* variant: the duration is not validated
permit_Unchecked(devs, seq, self, time_s, sent) ==
  LET devs1 == [devs EXCEPT
                  ![self].endpoints[endpoint_id].in_clusters[cluster_id] =
                     DictSet(@, ATTR_joiningAllowUntil, AllowUntil(time_s))]
      tsn == get_sequence(seq)
      bcast == Event("broadcast", "", self, cluster_id, 2, <<11, time_s>>, tsn)
  IN Result(devs1, tsn,
            <<LogDebug("Permit green power pairing"), bcast>>,
            IF sent THEN "" ELSE "DeliveryError", <<>>)

\* GreenPowerProxy.permit(self, time_s); sent: the broadcast succeeds
permit(devs, seq, self, time_s, sent) ==
  IF ~(0 <= time_s /\ time_s <= MAX_PERMIT_TIME)
  THEN Result(devs, seq, <<>>, "AssertionError", <<>>)
  ELSE
    LET devs1 == [devs EXCEPT
                    ![self].endpoints[endpoint_id].in_clusters[cluster_id] =
                       DictSet(@, ATTR_joiningAllowUntil, AllowUntil(time_s))]
        tsn == get_sequence(seq)
        bcast == Event("broadcast", "", self, cluster_id, 2, <<11, time_s>>, tsn)
    IN Result(devs1, tsn,
              <<LogDebug("Permit green power pairing"), bcast>>,
              IF sent THEN "" ELSE "DeliveryError", <<>>)

---------------------------------------------------------------------------
(* OTA upgrade negotiation (Ota) *)

\* Ota.server_commands: command id -> name
server_commands ==
  (1 :> "query_next_image") @@ (3 :> "image_block") @@ (4 :> "image_page")
    @@ (6 :> "upgrade_end") @@ (8 :> "query_specific_file")

\* Ota.client_commands: name -> command id
client_commands ==
  [query_next_image_response |-> 2, image_block_response |-> 5,
   upgrade_end_response |-> 7]

\* the outcome of a coroutine of the cluster: what it emitted and the
\* exception it ended with
OtaResult(evs, raised) == [events |-> evs, raised |-> raised, ret |-> <<>>]

\* application.ota.get_ota_image(manufacturer_id, image_type): <<img>>, or
\* <<>> for None
get_ota_image(imgs, manufacturer_id, image_type) ==
  IF <<manufacturer_id, image_type>> \in DOMAIN imgs
  THEN <<imgs[<<manufacturer_id, image_type>>]>>
  ELSE <<>>

\* img.should_update(manufacturer_id, image_type, version, hardware_version):
\* the image is of that key, newer than the version the device runs, and
\* its hardware range, when it has one, holds a hardware version supplied
should_update(img, manufacturer_id, image_type, ver, hw_ver) ==
  /\ img.key = <<manufacturer_id, image_type>>
  /\ ver < img.version
  /\ \/ hw_ver = None
     \/ img.hardware = <<>>
     \/ img.hardware[1] <= hw_ver /\ hw_ver <= img.hardware[2]

\* variant: the block is cut from the start of the image
get_image_block_FromStart(img, offset, size) ==
  IF offset >= img.image_size THEN [raised |-> "ValueError", ret |-> <<>>]
  ELSE [raised |-> "", ret |-> SubSeq(img.data, 1, Min(img.image_size, size))]

\* img.get_image_block(offset, size): the bytes of the image from offset,
\* at most size of them; an offset at or after the end is a ValueError
get_image_block(img, offset, size) ==
  IF offset >= img.image_size THEN [raised |-> "ValueError", ret |-> <<>>]
  ELSE [raised |-> "",
        ret |-> SubSeq(img.data, offset + 1, Min(img.image_size, offset + size))]

\* a response command sent to the device: self.<name>(*args, tsn=tsn);
\* delivered: the transport delivers it
Response(name, args, tsn, delivered) ==
  IF delivered
  THEN OtaResult(<<Event("ota_response", name, <<>>, Ota_cluster_id,
                         client_commands[name], args, tsn)>>, "")
  ELSE OtaResult(<<>>, "DeliveryError")

\* variant: a rejected image is offered all the same
_handle_query_next_image_Offered(imgs, args, tsn, delivered) ==
  LET img == get_ota_image(imgs, args[2], args[3])
  IN IF img # <<>>
     THEN Response("query_next_image_response",
                   <<"SUCCESS", img[1].key[1], img[1].key[2], img[1].version,
                     img[1].image_size>>, tsn, delivered)
     ELSE Response("query_next_image_response", <<"NO_IMAGE_AVAILABLE">>,
                   tsn, delivered)

\* variant: the response echoes the version the device runs
_handle_query_next_image_Echoed(imgs, args, tsn, delivered) ==
  LET img == get_ota_image(imgs, args[2], args[3])
  IN IF img # <<>> /\ should_update(img[1], args[2], args[3], args[4], args[5])
     THEN Response("query_next_image_response",
                   <<"SUCCESS", args[2], args[3], args[4], img[1].image_size>>,
                   tsn, delivered)
     ELSE Response("query_next_image_response", <<"NO_IMAGE_AVAILABLE">>,
                   tsn, delivered)

\* Ota._handle_query_next_image(field_ctrl, manufacturer_id, image_type,
\* current_file_version, hardware_version, tsn=tsn), args in that order
_handle_query_next_image(imgs, args, tsn, delivered) ==
  LET manufacturer_id == args[2]
      image_type == args[3]
      current_file_version == args[4]
      hardware_version == args[5]
      img == get_ota_image(imgs, manufacturer_id, image_type)
      no_image == Response("query_next_image_response",
                           <<"NO_IMAGE_AVAILABLE">>, tsn, delivered)
  IN IF img # <<>>
     THEN IF should_update(img[1], manufacturer_id, image_type,
                           current_file_version, hardware_version)
          THEN LET r == Response("query_next_image_response",
                                 <<"SUCCESS", img[1].key[1], img[1].key[2],
                                   img[1].version, img[1].image_size>>,
                                 tsn, delivered)
               IN [r EXCEPT !.events =
                     <<LogDebug("OTA query_next_image handler"),
                       LogDebug("OTA image version"), LogDebug("Updating")>> \o @]
          ELSE [no_image EXCEPT !.events =
                  <<LogDebug("OTA query_next_image handler"),
                    LogDebug("OTA image version")>> \o @]
     ELSE [no_image EXCEPT !.events =
             <<LogDebug("OTA query_next_image handler"),
               LogDebug("No OTA image is available")>> \o @]

\* variant: the version of the image is not compared with the request
_handle_image_block_AnyVersion(imgs, args, tsn, delivered) ==
  LET img == get_ota_image(imgs, args[2], args[3])
  IN IF img = <<>>
     THEN Response("image_block_response", <<"ABORT">>, tsn, delivered)
     ELSE LET block == get_image_block(img[1], args[5], args[6])
          IN IF block.raised = ""
             THEN Response("image_block_response",
                           <<"SUCCESS", img[1].key[1], img[1].key[2],
                             img[1].version, args[5], block.ret>>, tsn, delivered)
             ELSE Response("image_block_response", <<"MALFORMED_COMMAND">>,
                           tsn, delivered)

\* Ota._handle_image_block(field_ctr, manufacturer_id, image_type,
\* file_version, file_offset, max_data_size, request_node_addr,
\* block_request_delay, tsn=tsn), args in that order
_handle_image_block(imgs, args, tsn, delivered) ==
  LET manufacturer_id == args[2]
      image_type == args[3]
      file_version == args[4]
      file_offset == args[5]
      max_data_size == args[6]
      img == get_ota_image(imgs, manufacturer_id, image_type)
  IN IF img = <<>> \/ img[1].version # file_version
     THEN LET r == Response("image_block_response", <<"ABORT">>, tsn, delivered)
          IN [r EXCEPT !.events =
                <<LogDebug("OTA image_block handler"),
                  LogDebug("OTA image is not available")>> \o @]
     ELSE IF img[1].image_size = 0
     THEN \* 100.0 * file_offset / img.header.image_size
          OtaResult(<<LogDebug("OTA image_block handler")>>, "ZeroDivisionError")
     ELSE
       LET block == get_image_block(img[1], file_offset, max_data_size)
           r == IF block.raised = "ValueError"
                THEN Response("image_block_response", <<"MALFORMED_COMMAND">>,
                              tsn, delivered)
                ELSE Response("image_block_response",
                              <<"SUCCESS", img[1].key[1], img[1].key[2],
                                img[1].version, file_offset, block.ret>>,
                              tsn, delivered)
       IN [r EXCEPT !.events = <<LogDebug("OTA image_block handler"),
                                 LogDebug("OTA upgrade progress")>> \o @]

\* variant: only an upgrade that ended well is acknowledged
_handle_upgrade_end_OnSuccess(imgs, args, tsn, delivered) ==
  IF args[1] = "SUCCESS"
  THEN Response("upgrade_end_response", <<args[2], args[3], args[4], 0, 0>>,
                tsn, delivered)
  ELSE OtaResult(<<LogDebug("OTA upgrade_end handler")>>, "")

\* Ota._handle_upgrade_end(status, manufacturer_id, image_type, file_ver,
\* tsn=tsn), args in that order
_handle_upgrade_end(imgs, args, tsn, delivered) ==
  LET r == Response("upgrade_end_response",
                    <<args[2], args[3], args[4], 0, 0>>, tsn, delivered)
  IN [r EXCEPT !.events = <<LogDebug("OTA upgrade_end handler")>> \o @]

\* Ota._handle_cluster_request(hdr, args); hdr is [tsn, command_id]
_handle_cluster_request(imgs, hdr, args, delivered) ==
  LET cmd_name == IF hdr.command_id \in DOMAIN server_commands
                  THEN server_commands[hdr.command_id]
                  ELSE "unknown"
  IN IF cmd_name = "query_next_image"
     THEN _handle_query_next_image(imgs, args, hdr.tsn, delivered)
     ELSE IF cmd_name = "image_block"
     THEN _handle_image_block(imgs, args, hdr.tsn, delivered)
     ELSE IF cmd_name = "upgrade_end"
     THEN _handle_upgrade_end(imgs, args, hdr.tsn, delivered)
     ELSE OtaResult(<<LogDebug("no OTA command handler")>>, "")

\* create_catching_task(coroutine): the exception the coroutine ends with is
\* logged and goes no further
create_catching_task(r) ==
  IF r.raised = "" THEN r
  ELSE OtaResult(r.events \o <<Event("exception", r.raised, <<>>, None, None, <<>>, None)>>, "")

\* Ota.handle_cluster_request(hdr, args)
handle_cluster_request(imgs, hdr, args, delivered) ==
  create_catching_task(_handle_cluster_request(imgs, hdr, args, delivered))

---------------------------------------------------------------------------
(* The environment: who calls, and with what *)

\* the device hosting the receiving proxy cluster (not a doubled identity)
CoordinatorIeee == <<0, 1, 2, 3, 4, 5, 6, 7>>
Coordinator ==
  [nwk |-> 0, status |-> "ENDPOINTS_INIT",
   endpoints |-> (endpoint_id :> ProxyEndpoint)]

Ieee(src_id) == src_id \o src_id

KeyArgs ==
  { [none |-> TRUE, int |-> None, bytes |-> <<>>],
    [none |-> FALSE, int |-> None, bytes |-> Key1],
    [none |-> FALSE, int |-> None, bytes |-> Key2],
    [none |-> FALSE, int |-> KeyInt1, bytes |-> <<>>] }

DeviceTypes == {2, 153}
PermitTimes == {-1, 0, 1, MAX_PERMIT_TIME, MAX_PERMIT_TIME + 1}

\* the MIC a sender holding key puts on the frame
SenderMic(key, src_id, header, counter, command_id, payload) ==
  MicUnderKey(key, src_id, header, to_bytes_little(counter, 4),
              <<command_id>> \o payload).ret

\* a data frame in the layout of handle_message
DataFrame(header, src_id, counter, command_id, payload, mic) ==
  header \o src_id \o to_bytes_little(counter, 4) \o <<command_id>>
    \o payload \o to_bytes_little(mic, 4)

\* a commissioning frame: length marker, identity, opcode, device type
CommissioningFrame(src_id, type) ==
  <<COMMISSIONING_LENGTH>> \o src_id \o <<COMMISSIONING_OPCODE, type>>
    \o <<0, 0, 0, 0, 0, 0>>

\* a commissioning frame whose bytes after the device type read as a
\* counter of 1, the command id of On and a MIC
CommissioningFrameWithTail(src_id, type) ==
  <<COMMISSIONING_LENGTH>> \o src_id \o <<COMMISSIONING_OPCODE, type>>
    \o <<1, 0, 0, 0, 33, 9, 9, 9, 9>>

\* the frames of those senders, counters and bodies, signed with those keys
SignedFrames(srcs, counters, bodies, keys) ==
  { DataFrame(h, s, c, b[1], b[2], SenderMic(k, s, h, c, b[1], b[2])) :
      h \in FrameHeaders, s \in srcs, c \in counters, b \in bodies, k \in keys }

\* the frames of a commissioned sender: On with every counter and the other
\* bodies with the first two counters, signed with either key, and the
\* bodies with a payload, signed with the key devices are given; and the
\* first On frame of a sender that is never commissioned
DataFrames ==
  SignedFrames(CommissionedSrcIds, FrameCounters, {<<33, <<>>>>}, {Key1, Key2})
    \cup SignedFrames(CommissionedSrcIds, {0, 1}, FrameBodies, {Key1, Key2})
    \cup SignedFrames(CommissionedSrcIds, {0, 1}, PayloadBodies, {Key1})
    \cup SignedFrames(SrcIds \ CommissionedSrcIds, {0}, {<<33, <<>>>>}, {Key1, Key2})

CommissioningFrames ==
  { CommissioningFrame(s, ty) : s \in CommissionedSrcIds, ty \in DeviceTypes }
    \cup { CommissioningFrameWithTail(s, 2) : s \in CommissionedSrcIds }

\* frames cut short: a lone length marker, a commissioning frame without its
\* type, a data frame that ends after the identity
MalformedFrames ==
  { <<COMMISSIONING_LENGTH>>,
    <<COMMISSIONING_LENGTH, 1, 2, 3, 4, COMMISSIONING_OPCODE>>,
    <<140, 48, 1, 2, 3, 4>> }

\* the devices whose endpoint 242 carries a proxy cluster
Proxies(devs) ==
  { i \in DOMAIN devs :
      /\ endpoint_id \in DOMAIN devs[i].endpoints
      /\ cluster_id \in DOMAIN devs[i].endpoints[endpoint_id].in_clusters }

\* Frames arrive at, and permit is called on, the coordinator's proxy
\* cluster; a key is provisioned on the proxy cluster of the device it
\* belongs to, where handle_notification looks it up.
Receivers(devs) == Proxies(devs) \cap {CoordinatorIeee}
KeyHolders(devs) == Proxies(devs) \ {CoordinatorIeee}

\* the fields of a data frame, as handle_message reads them
FrameIeee(data) == PySlice(data, 2, 6) \o PySlice(data, 2, 6)
FrameCounter(data) == from_bytes_little(PySlice(data, 6, 10))
FrameCommand(data) == data[11]

Call(op, self, data, ieee, arg, flag, res) ==
  [raised |-> res.raised, ret |-> res.ret, ieee |-> ieee, self |-> self,
   data |-> data, op |-> op, arg |-> arg, flag |-> flag]

\* the history of redispatches, counted up to 2 per (device, counter)
Count(h, k) == IF k \in DOMAIN h THEN h[k] ELSE 0
CountRedispatch(h, evs, counter) ==
  LET hits == { i \in DOMAIN evs : evs[i].kind = "cluster_command" }
  IN IF hits = {} THEN h
     ELSE LET k == <<evs[CHOOSE i \in hits : TRUE].dev, counter>>
          IN DictSet(h, k, Min(2, Count(h, k) + Cardinality(hits)))

\* how the broadcast of the permit call that set the expiry ended
Announced(before, raised) ==
  IF raised = "AssertionError" THEN before
  ELSE IF raised = "" THEN "delivered" ELSE "failed"

---------------------------------------------------------------------------
(* The state machine *)

Init ==
  /\ devices = (CoordinatorIeee :> Coordinator)
  /\ sequence = 0
  /\ now = 0
  /\ events = <<>>
  /\ last = Call("init", <<>>, <<>>, <<>>, None, FALSE,
                 [raised |-> "", ret |-> <<>>])
  /\ redispatched = EmptyDict
  /\ announced = "never"
  /\ images = EmptyDict
  /\ served = None
  /\ tasks = <<>>

Apply(res) ==
  /\ res.sequence <= MaxSequence
  /\ devices' = res.devices
  /\ sequence' = res.sequence
  /\ events' = res.events


\* variant: frame handling as it would be with a suspension point between
\* the replay comparison and the counter update: the first half judges the
\* frame and parks it, the second half, any number of steps later, stores
\* the counter and redispatches
HandleDataFrame_Suspended ==
  \/ /\ tasks = <<>>
     /\ \E self \in Receivers(devices), data \in DataFrames :
          \E res \in {handle_message(devices, sequence, self, data)} :
            /\ res.devices # devices
            /\ tasks' = <<self, data, res.events>>
            /\ events' = <<>>
            /\ last' = Call("data_frame_parked", self, data, FrameIeee(data),
                            None, FALSE, res)
            /\ UNCHANGED <<devices, sequence, now, redispatched, announced,
                           images, served>>
  \/ /\ tasks # <<>>
     /\ devices' = [devices EXCEPT
                      ![FrameIeee(tasks[2])].endpoints[endpoint_id]
                         .in_clusters[cluster_id] =
                           _update_attribute(@, ATTR_counter,
                                             FrameCounter(tasks[2]))]
     /\ events' = tasks[3]
     /\ last' = Call("data_frame", tasks[1], tasks[2], FrameIeee(tasks[2]),
                     None, FALSE, [raised |-> "", ret |-> <<>>])
     /\ redispatched' = CountRedispatch(redispatched, tasks[3],
                                        FrameCounter(tasks[2]))
     /\ tasks' = <<>>
     /\ UNCHANGED <<sequence, now, announced, images, served>>

\* a data frame arrives at a proxy cluster
HandleDataFrame ==
  \E self \in Receivers(devices), data \in DataFrames :
    \E res \in {handle_message(devices, sequence, self, data)} :
    /\ Apply(res)
    /\ last' = Call("data_frame", self, data, FrameIeee(data), None, FALSE, res)
    /\ redispatched' = CountRedispatch(redispatched, res.events, FrameCounter(data))
    /\ UNCHANGED <<now, announced, images, served, tasks>>

\* a commissioning frame arrives at a proxy cluster
HandleCommissioningFrame ==
  \E self \in Receivers(devices), data \in CommissioningFrames :
    \E res \in {handle_message(devices, sequence, self, data)} :
    /\ Apply(res)
    /\ last' = Call("commissioning_frame", self, data,
                    PySlice(data, 1, 5) \o PySlice(data, 1, 5), data[7], FALSE, res)
    /\ UNCHANGED <<now, redispatched, announced, images, served, tasks>>

\* a frame that is cut short arrives at a proxy cluster
HandleMalformedFrame ==
  \E self \in Receivers(devices), data \in MalformedFrames :
    \E res \in {handle_message(devices, sequence, self, data)} :
    /\ Apply(res)
    /\ last' = Call("malformed_frame", self, data, <<>>, None, FALSE, res)
    /\ UNCHANGED <<now, redispatched, announced, images, served, tasks>>

\* create_device is called directly, with or without the override flag
\* (remoteCommissioning)
CallCreateDevice ==
  \E self \in Receivers(devices), s \in CommissionedSrcIds,
     ty \in DeviceTypes \cup {None}, remoteCommissioning \in BOOLEAN :
    \E res \in {create_device(devices, sequence, self, Ieee(s), ty,
                              remoteCommissioning)} :
    /\ Apply(res)
    /\ last' = Call("create_device", self, <<>>, Ieee(s), ty,
                    remoteCommissioning, res)
    /\ UNCHANGED <<now, redispatched, announced, images, served, tasks>>

Permit ==
  \E self \in Receivers(devices), time_s \in PermitTimes, sent \in BOOLEAN :
    \E res \in {permit(devices, sequence, self, time_s, sent)} :
    /\ Apply(res)
    /\ last' = Call("permit", self, <<>>, <<>>, time_s, sent, res)
    /\ announced' = Announced(announced, res.raised)
    /\ UNCHANGED <<now, redispatched, images, served, tasks>>

SetKey ==
  \E self \in KeyHolders(devices), key \in KeyArgs :
    \E res \in {setKey(devices, sequence, self, key)} :
    /\ Apply(res)
    /\ last' = Call("setKey", self, key.bytes, <<>>, key.int, key.none, res)
    /\ UNCHANGED <<now, redispatched, announced, images, served, tasks>>

\* time passes
Tick ==
  /\ now < MaxTime
  /\ now' = now + 1
  /\ events' = <<>>
  /\ last' = Call("tick", <<>>, <<>>, <<>>, None, FALSE,
                  [raised |-> "", ret |-> <<>>])
  /\ UNCHANGED <<devices, sequence, redispatched, announced, images, served, tasks>>

Next ==
  \/ HandleDataFrame
  \/ HandleCommissioningFrame
  \/ HandleMalformedFrame
  \/ CallCreateDevice
  \/ Permit
  \/ SetKey
  \/ Tick

Spec == Init /\ [][Next]_vars

---------------------------------------------------------------------------
(* The OTA state machine *)

\* the one key the provider may hold an image for, and the manufacturers
\* that ask
ImageKey == <<4476, 1>>
Manufacturers == {4476, 4107}
Hardware == { <<>>, <<1, 1>> }
HardwareVersions == {None, 1, 2}
Tsns == {7, 8}
\* the status a device reports when its upgrade ends
UpgradeStatuses == {"SUCCESS", "ABORT"}

Image(version, size, hardware) ==
  [key |-> ImageKey, data |-> [i \in 1..size |-> 16 * version + i],
   version |-> version, hardware |-> hardware, image_size |-> size]

\* what the provider may hold: nothing, or one image; one of the images
\* has a header that gives 0 as the size of the image
Catalogues ==
  {EmptyDict} \cup
    { (ImageKey :> Image(v, n, hw)) :
        v \in 1..MaxVersion, n \in 1..MaxImageSize, hw \in Hardware }
    \cup { (ImageKey :> Image(1, 0, <<>>)) }

OtaCall(op, hdr, args, delivered, res) ==
  [raised |-> res.raised, ret |-> res.ret, ieee |-> <<>>, self |-> <<>>,
   data |-> args, op |-> op, arg |-> hdr.tsn, flag |-> delivered]

\* the version of the image the last block sent came from
ServedAfter(before, evs) ==
  LET blocks == { i \in DOMAIN evs :
                    /\ evs[i].kind = "ota_response"
                    /\ evs[i].msg = "image_block_response"
                    /\ evs[i].args[1] = "SUCCESS" }
  IN IF blocks = {} THEN before
     ELSE evs[CHOOSE i \in blocks : TRUE].args[4]

\* an OTA request is handled; the proxy state is not involved
OtaRequest(op, hdr, args, delivered) ==
  \E res \in {handle_cluster_request(images, hdr, args, delivered)} :
    /\ events' = res.events
    /\ last' = OtaCall(op, hdr, args, delivered, res)
    /\ served' = ServedAfter(served, res.events)
    /\ UNCHANGED <<devices, sequence, now, redispatched, announced, images, tasks>>

OtaQueryNextImage ==
  \E m \in Manufacturers, ver \in 0..MaxVersion, hw \in HardwareVersions,
     tsn \in Tsns, delivered \in BOOLEAN :
    OtaRequest("query_next_image", [tsn |-> tsn, command_id |-> 1],
               <<IF hw = None THEN 0 ELSE 1, m, ImageKey[2], ver, hw>>, delivered)

OtaImageBlock ==
  \E m \in Manufacturers, ver \in 1..MaxVersion, offset \in 0..(MaxImageSize + 1),
     size \in 1..MaxImageSize, tsn \in Tsns, delivered \in BOOLEAN :
    OtaRequest("image_block", [tsn |-> tsn, command_id |-> 3],
               <<0, m, ImageKey[2], ver, offset, size, None, None>>, delivered)

OtaUpgradeEnd ==
  \E status \in UpgradeStatuses, m \in Manufacturers, ver \in 1..MaxVersion,
     tsn \in Tsns, delivered \in BOOLEAN :
    OtaRequest("upgrade_end", [tsn |-> tsn, command_id |-> 6],
               <<status, m, ImageKey[2], ver>>, delivered)

\* a command the cluster has no handler for: image_page,
\* query_specific_file, or an unknown id
OtaUnhandled ==
  \E command_id \in {4, 8, 99}, tsn \in Tsns :
    OtaRequest("unhandled", [tsn |-> tsn, command_id |-> command_id], <<>>, TRUE)

\* the provider's catalogue changes
ProviderUpdate ==
  /\ images' \in Catalogues \ {images}
  /\ events' = <<>>
  /\ last' = Call("provider_update", <<>>, <<>>, <<>>, None, FALSE,
                  [raised |-> "", ret |-> <<>>])
  /\ UNCHANGED <<devices, sequence, now, redispatched, announced, served, tasks>>

NextOta ==
  \/ OtaQueryNextImage
  \/ OtaImageBlock
  \/ OtaUpgradeEnd
  \/ OtaUnhandled
  \/ ProviderUpdate

SpecOta == Init /\ [][NextOta]_vars

---------------------------------------------------------------------------
(* The commissioning window in a process with two proxy cluster instances: *)
(* that of the coordinator and that of a router with a proxy endpoint      *)

RouterIeee == <<8, 9, 10, 11, 12, 13, 14, 15>>
Router ==
  [nwk |-> 1, status |-> "ENDPOINTS_INIT",
   endpoints |-> (endpoint_id :> ProxyEndpoint)]

\* the devices whose proxy cluster frames arrive at and permit is called on
ProxyHosts == {CoordinatorIeee, RouterIeee}

InitWindow ==
  /\ devices = (CoordinatorIeee :> Coordinator) @@ (RouterIeee :> Router)
  /\ sequence = 0
  /\ now = 0
  /\ events = <<>>
  /\ last = Call("init", <<>>, <<>>, <<>>, None, FALSE,
                 [raised |-> "", ret |-> <<>>])
  /\ redispatched = EmptyDict
  /\ announced = "never"
  /\ images = EmptyDict
  /\ served = None
  /\ tasks = <<>>

\* permit is called on either proxy cluster
WindowPermit ==
  \E self \in ProxyHosts, time_s \in PermitTimes, sent \in BOOLEAN :
    \E res \in {permit(devices, sequence, self, time_s, sent)} :
    /\ Apply(res)
    /\ last' = Call("permit", self, <<>>, <<>>, time_s, sent, res)
    /\ announced' = Announced(announced, res.raised)
    /\ UNCHANGED <<now, redispatched, images, served, tasks>>

\* a commissioning frame arrives at either proxy cluster
WindowCommissioningFrame ==
  \E self \in ProxyHosts, data \in CommissioningFrames :
    \E res \in {handle_message(devices, sequence, self, data)} :
    /\ Apply(res)
    /\ last' = Call("commissioning_frame", self, data,
                    PySlice(data, 1, 5) \o PySlice(data, 1, 5), data[7], FALSE, res)
    /\ UNCHANGED <<now, redispatched, announced, images, served, tasks>>

\* the first On frame of the commissioned sender arrives at either proxy
\* cluster
WindowDataFrame ==
  \E self \in ProxyHosts,
     data \in SignedFrames(CommissionedSrcIds, {0}, {<<33, <<>>>>}, {Key1}) :
    \E res \in {handle_message(devices, sequence, self, data)} :
    /\ Apply(res)
    /\ last' = Call("data_frame", self, data, FrameIeee(data), None, FALSE, res)
    /\ redispatched' = CountRedispatch(redispatched, res.events, FrameCounter(data))
    /\ UNCHANGED <<now, announced, images, served, tasks>>

\* a key is set or cleared on the proxy cluster of a commissioned device
WindowSetKey ==
  \E self \in Proxies(devices) \ ProxyHosts, key \in KeyArgs :
    \E res \in {setKey(devices, sequence, self, key)} :
    /\ Apply(res)
    /\ last' = Call("setKey", self, key.bytes, <<>>, key.int, key.none, res)
    /\ UNCHANGED <<now, redispatched, announced, images, served, tasks>>

\* one OTA request of each kind, of a device that runs version 1
WindowOtaRequest ==
  \E command_id \in {1, 3, 6} :
    OtaRequest(server_commands[command_id],
               [tsn |-> 7, command_id |-> command_id],
               IF command_id = 1 THEN <<0, ImageKey[1], ImageKey[2], 1, None>>
               ELSE IF command_id = 3
               THEN <<0, ImageKey[1], ImageKey[2], 1, 0, 1, None, None>>
               ELSE <<"SUCCESS", ImageKey[1], ImageKey[2], 1>>,
               TRUE)

NextWindow ==
  \/ WindowPermit
  \/ WindowCommissioningFrame
  \/ WindowDataFrame
  \/ WindowSetKey
  \/ WindowOtaRequest
  \/ Tick

SpecWindow == InitWindow /\ [][NextWindow]_vars

---------------------------------------------------------------------------
(* The OTA coroutines, segment by segment *)

\* the devices whose requests are in flight together; each numbers its
\* requests with its own transaction sequence number
OtaClients == {1, 2}
TsnOf(client) == 6 + client

\* what the provider holds while the coroutines run
TaskCatalogues ==
  { EmptyDict, (ImageKey :> Image(1, 1, <<>>)), (ImageKey :> Image(2, 1, <<>>)),
    (ImageKey :> Image(1, 0, <<>>)) }

\* the requests of a client that runs version 0 and fetches version 1
TaskRequests(client) ==
  LET hdr(id) == [tsn |-> TsnOf(client), command_id |-> id]
  IN { [args |-> <<0, ImageKey[1], ImageKey[2], 0, None>>, hdr |-> hdr(1)],
       [args |-> <<0, ImageKey[1], ImageKey[2], 1, 0, 1, None, None>>,
        hdr |-> hdr(3)],
       [args |-> <<0, ImageKey[1], ImageKey[2], 1, 1, 1, None, None>>,
        hdr |-> hdr(3)],
       [args |-> <<"SUCCESS", ImageKey[1], ImageKey[2], 1>>, hdr |-> hdr(6)],
       [args |-> <<>>, hdr |-> hdr(4)] }

\* a coroutine: where it stands (idle: none in flight; scheduled: created
\* by create_catching_task; lookup: at await get_ota_image; send: at the
\* await of the response), the arguments, the response it is about to
\* send, and (history) the catalogue its lookup saw
Task(pc, hdr, args, resp, seen) ==
  [args |-> args, hdr |-> hdr, pc |-> pc, resp |-> resp, seen |-> seen]

Idle == Task("idle", <<>>, <<>>, <<>>, <<>>)

\* the outcome of one segment: the coroutine after it, what it emitted
Segment(task, evs) == [events |-> evs, task |-> task]

\* the task ended with an exception: create_catching_task logs it
Failed(evs, raised) ==
  Segment(Idle, create_catching_task(OtaResult(evs, raised)).events)

\* Ota.handle_cluster_request: the coroutine is created and scheduled
TaskScheduled(request) == Task("scheduled", request.hdr, request.args, <<>>, <<>>)

\* _handle_cluster_request from its start to the first await
TaskEntered(task) ==
  LET cmd_name == IF task.hdr.command_id \in DOMAIN server_commands
                  THEN server_commands[task.hdr.command_id]
                  ELSE "unknown"
  IN IF cmd_name = "query_next_image"
     THEN Segment([task EXCEPT !.pc = "lookup"],
                  <<LogDebug("OTA query_next_image handler")>>)
     ELSE IF cmd_name = "image_block"
     THEN Segment([task EXCEPT !.pc = "lookup"],
                  <<LogDebug("OTA image_block handler")>>)
     ELSE IF cmd_name = "upgrade_end"
     THEN Segment([task EXCEPT !.pc = "send",
                               !.resp = <<"upgrade_end_response",
                                          <<task.args[2], task.args[3],
                                            task.args[4], 0, 0>>>>],
                  <<LogDebug("OTA upgrade_end handler")>>)
     ELSE Segment(Idle, <<LogDebug("no OTA command handler")>>)

\* _handle_query_next_image from the return of get_ota_image to the await
\* of the response
QueryPrepared(task, img) ==
  IF img # <<>>
  THEN IF should_update(img[1], task.args[2], task.args[3], task.args[4],
                        task.args[5])
       THEN Segment([task EXCEPT !.pc = "send",
                                 !.resp = <<"query_next_image_response",
                                            <<"SUCCESS", img[1].key[1],
                                              img[1].key[2], img[1].version,
                                              img[1].image_size>>>>],
                    <<LogDebug("OTA image version"), LogDebug("Updating")>>)
       ELSE Segment([task EXCEPT !.pc = "send",
                                 !.resp = <<"query_next_image_response",
                                            <<"NO_IMAGE_AVAILABLE">>>>],
                    <<LogDebug("OTA image version")>>)
  ELSE Segment([task EXCEPT !.pc = "send",
                            !.resp = <<"query_next_image_response",
                                       <<"NO_IMAGE_AVAILABLE">>>>],
               <<LogDebug("No OTA image is available")>>)

\* _handle_image_block from the return of get_ota_image to the await of
\* the response
BlockPrepared(task, img) ==
  IF img = <<>> \/ img[1].version # task.args[4]
  THEN Segment([task EXCEPT !.pc = "send",
                            !.resp = <<"image_block_response", <<"ABORT">>>>],
               <<LogDebug("OTA image is not available")>>)
  ELSE IF img[1].image_size = 0
  THEN Failed(<<>>, "ZeroDivisionError")
  ELSE LET block == get_image_block(img[1], task.args[5], task.args[6])
       IN Segment([task EXCEPT
                     !.pc = "send",
                     !.resp = IF block.raised = "ValueError"
                              THEN <<"image_block_response",
                                     <<"MALFORMED_COMMAND">>>>
                              ELSE <<"image_block_response",
                                     <<"SUCCESS", img[1].key[1], img[1].key[2],
                                       img[1].version, task.args[5],
                                       block.ret>>>>],
                  <<LogDebug("OTA upgrade progress")>>)

\* await get_ota_image returns: the catalogue is read now, and the
\* coroutine runs on to the await of its response
TaskLookedUp(task, imgs) ==
  LET img == get_ota_image(imgs, task.args[2], task.args[3])
      looked == [task EXCEPT !.seen = imgs]
  IN IF server_commands[task.hdr.command_id] = "query_next_image"
     THEN QueryPrepared(looked, img)
     ELSE BlockPrepared(looked, img)

\* the await of the response returns: the response went out, or the
\* transport raised; the coroutine ends
TaskSent(task, delivered) ==
  Segment(Idle, create_catching_task(
                  Response(task.resp[1], task.resp[2], task.hdr.tsn,
                           delivered)).events)

TaskCall(op, client, task, delivered) ==
  [raised |-> "", ret |-> <<>>, ieee |-> <<>>, self |-> client,
   data |-> task.args, op |-> op, arg |-> task.hdr, flag |-> delivered]

InitTasks ==
  /\ devices = (CoordinatorIeee :> Coordinator)
  /\ sequence = 0
  /\ now = 0
  /\ events = <<>>
  /\ last = Call("init", <<>>, <<>>, <<>>, None, FALSE,
                 [raised |-> "", ret |-> <<>>])
  /\ redispatched = EmptyDict
  /\ announced = "never"
  /\ images = EmptyDict
  /\ served = None
  /\ tasks = [client \in OtaClients |-> Idle]

\* one segment of the coroutine of a client ran
TaskStep(op, client, seg, delivered) ==
  /\ tasks' = [tasks EXCEPT ![client] = seg.task]
  /\ events' = seg.events
  /\ last' = TaskCall(op, client, tasks[client], delivered)
  /\ UNCHANGED <<devices, sequence, now, redispatched, announced, images, served>>

OtaSchedule ==
  \E client \in OtaClients :
    /\ tasks[client].pc = "idle"
    /\ \E request \in TaskRequests(client) :
         /\ tasks' = [tasks EXCEPT ![client] = TaskScheduled(request)]
         /\ events' = <<>>
         /\ last' = TaskCall("ota_schedule", client, TaskScheduled(request), FALSE)
         /\ UNCHANGED <<devices, sequence, now, redispatched, announced, images, served>>

OtaEnter ==
  \E client \in OtaClients :
    /\ tasks[client].pc = "scheduled"
    /\ TaskStep("ota_enter", client, TaskEntered(tasks[client]), FALSE)

OtaLookup ==
  \E client \in OtaClients :
    /\ tasks[client].pc = "lookup"
    /\ TaskStep("ota_lookup", client, TaskLookedUp(tasks[client], images), FALSE)

\* variant: the response is built from what the provider holds when it is
\* sent
OtaSend_Relooked ==
  \E client \in OtaClients, delivered \in BOOLEAN :
    /\ tasks[client].pc = "send"
    /\ TaskStep("ota_send", client,
                Segment(Idle, handle_cluster_request(images, tasks[client].hdr,
                                                     tasks[client].args,
                                                     delivered).events),
                delivered)

OtaSend ==
  \E client \in OtaClients, delivered \in BOOLEAN :
    /\ tasks[client].pc = "send"
    /\ TaskStep("ota_send", client, TaskSent(tasks[client], delivered), delivered)

\* the provider's catalogue changes while coroutines are in flight
TaskProviderUpdate ==
  /\ images' \in TaskCatalogues \ {images}
  /\ events' = <<>>
  /\ last' = Call("provider_update", <<>>, <<>>, <<>>, None, FALSE,
                  [raised |-> "", ret |-> <<>>])
  /\ UNCHANGED <<devices, sequence, now, redispatched, announced, served, tasks>>

NextTasks ==
  \/ OtaSchedule
  \/ OtaEnter
  \/ OtaLookup
  \/ OtaSend
  \/ TaskProviderUpdate

SpecTasks == InitTasks /\ [][NextTasks]_vars

---------------------------------------------------------------------------
(* Devices of every type *)

\* the type codes a device is created with: every key of the table, a
\* code between two keys and a code above all of them
LabelTypes == DOMAIN device \cup {8, 153}

LabelCreateDevice ==
  \E self \in Receivers(devices), s \in CommissionedSrcIds,
     ty \in LabelTypes \cup {None}, remoteCommissioning \in BOOLEAN :
    \E res \in {create_device(devices, sequence, self, Ieee(s), ty,
                              remoteCommissioning)} :
    /\ Apply(res)
    /\ last' = Call("create_device", self, <<>>, Ieee(s), ty,
                    remoteCommissioning, res)
    /\ UNCHANGED <<now, redispatched, announced, images, served, tasks>>

LabelCommissioningFrame ==
  \E self \in Receivers(devices), s \in CommissionedSrcIds, ty \in LabelTypes :
    \E data \in {CommissioningFrame(s, ty)} :
    \E res \in {handle_message(devices, sequence, self, data)} :
    /\ Apply(res)
    /\ last' = Call("commissioning_frame", self, data,
                    PySlice(data, 1, 5) \o PySlice(data, 1, 5), data[7], FALSE, res)
    /\ UNCHANGED <<now, redispatched, announced, images, served, tasks>>

NextLabel ==
  \/ LabelCreateDevice
  \/ LabelCommissioningFrame
  \/ Permit

SpecLabel == Init /\ [][NextLabel]_vars

---------------------------------------------------------------------------
(* Frames of every payload length *)

\* command id and payload, one body for each length a schema of the table
\* allows: On (no argument), Move Up (uint8), Step Up (uint8 and the
\* optional uint16), Move Color (two uint16), Step Color (two uint16, and
\* with the optional third)
MicBodies ==
  { <<33, <<>>>>, <<48, <<5>>>>, <<50, <<5, 1, 0>>>>, <<74, <<1, 0, 2, 0>>>>,
    <<75, <<1, 0, 2, 0>>>>, <<75, <<1, 0, 2, 0, 0, 0>>>> }

\* the MIC the sender puts on a frame: the one under its key, or, where
\* that cannot be computed, four zero bytes
MicOrZero(key, src_id, header, counter, body) ==
  LET mic == ComputeMic(key, src_id, header, to_bytes_little(counter, 4),
                        <<body[1]>> \o body[2])
  IN IF mic.raised = "" THEN mic.ret ELSE 0

MicFrames ==
  { DataFrame(h, s, c, b[1], b[2], MicOrZero(Key1, s, h, c, b)) :
      h \in FrameHeaders, s \in CommissionedSrcIds, c \in {0, 1}, b \in MicBodies }

MicDataFrame ==
  \E self \in Receivers(devices), data \in MicFrames :
    \E res \in {handle_message(devices, sequence, self, data)} :
    /\ Apply(res)
    /\ last' = Call("data_frame", self, data, FrameIeee(data), None, FALSE, res)
    /\ redispatched' = CountRedispatch(redispatched, res.events, FrameCounter(data))
    /\ UNCHANGED <<now, announced, images, served, tasks>>

NextMic ==
  \/ MicDataFrame
  \/ CallCreateDevice
  \/ SetKey

SpecMic == Init /\ [][NextMic]_vars

---------------------------------------------------------------------------
(* Two devices side by side *)

\* On frames of both identities, with the MIC under the first key
PairFrames == SignedFrames(SrcIds, {0, 1}, {<<33, <<>>>>}, {Key1})

PairCreateDevice ==
  \E self \in Receivers(devices), s \in SrcIds :
    \E res \in {create_device(devices, sequence, self, Ieee(s), 2, TRUE)} :
    /\ Apply(res)
    /\ last' = Call("create_device", self, <<>>, Ieee(s), 2, TRUE, res)
    /\ UNCHANGED <<now, redispatched, announced, images, served, tasks>>

PairDataFrame ==
  \E self \in Receivers(devices), data \in PairFrames :
    \E res \in {handle_message(devices, sequence, self, data)} :
    /\ Apply(res)
    /\ last' = Call("data_frame", self, data, FrameIeee(data), None, FALSE, res)
    /\ redispatched' = CountRedispatch(redispatched, res.events, FrameCounter(data))
    /\ UNCHANGED <<now, announced, images, served, tasks>>

NextPair ==
  \/ PairCreateDevice
  \/ PairDataFrame
  \/ SetKey

SpecPair == Init /\ [][NextPair]_vars

---------------------------------------------------------------------------
(* Vocabulary of the properties *)

\* the proxy-represented devices of the registry
GreenPowerDevices(devs) == DOMAIN devs \ {CoordinatorIeee}

HasCounter(devs, ieee) == ATTR_counter \in DOMAIN ProxyCache(devs, ieee)
StoredCounter(devs, ieee) == ProxyCache(devs, ieee)[ATTR_counter]
HasKey(devs, ieee) == ATTR_key \in DOMAIN ProxyCache(devs, ieee)
StoredKey(devs, ieee) == ProxyCache(devs, ieee)[ATTR_key]

\* the fields of a data frame by the layout of the frame
FrameHeader(data) == SubSeq(data, 1, 2)
FrameSrcId(data) == SubSeq(data, 3, 6)
FrameCounterBytes(data) == SubSeq(data, 7, 10)
FramePayload(data) == SubSeq(data, 12, Len(data) - 4)
FrameMic(data) == from_bytes_little(SubSeq(data, Len(data) - 3, Len(data)))

\* what a handler did to the outside: kinds of events other than log lines
Effects(evs) == { evs[i].kind : i \in DOMAIN evs } \ {"log"}
Logged(evs, msg) == \E i \in DOMAIN evs : evs[i].kind = "log" /\ evs[i].msg = msg
RedispatchesOf(evs) == { i \in DOMAIN evs : evs[i].kind = "cluster_command" }

\* the step handles a data frame of a device of the registry
DataFrameStep == last'.op = "data_frame" /\ last'.ieee \in DOMAIN devices

\* the frame's counter is at or below / above the counter stored before
StaleFrame(devs, f) ==
  HasCounter(devs, f.ieee) /\ FrameCounter(f.data) <= StoredCounter(devs, f.ieee)
FreshFrame(devs, f) ==
  ~HasCounter(devs, f.ieee) \/ FrameCounter(f.data) > StoredCounter(devs, f.ieee)

\* the MIC of the frame under the key stored for its device
ExpectedMic(devs, f) ==
  MicUnderKey(StoredKey(devs, f.ieee), FrameSrcId(f.data), FrameHeader(f.data),
              FrameCounterBytes(f.data),
              <<FrameCommand(f.data)>> \o FramePayload(f.data))

\* the device has no key, or the frame carries the MIC computed under it
AcceptableMic(devs, f) ==
  \/ ~HasKey(devs, f.ieee)
  \/ /\ ExpectedMic(devs, f).raised = ""
     /\ ExpectedMic(devs, f).ret = FrameMic(f.data)

\* the device has a key and the frame's MIC differs from the computed one
WrongMic(devs, f) ==
  /\ HasKey(devs, f.ieee)
  /\ ExpectedMic(devs, f).raised = ""
  /\ ExpectedMic(devs, f).ret # FrameMic(f.data)

\* the frame's payload can be read by the schema of its command
Deserializable(f) ==
  deserialize(FramePayload(f.data), command[FrameCommand(f.data)].schema).raised = ""

\* exactly one invocation, of the table's target, at endpoint 1 of the device
TranslatedTo(evs, ieee, entry, args) ==
  /\ Cardinality(RedispatchesOf(evs)) = 1
  /\ \A i \in RedispatchesOf(evs) :
       /\ evs[i].dev = ieee
       /\ evs[i].cluster = entry.cluster_id
       /\ evs[i].command = entry.zcl_command_id
       /\ evs[i].args = args

---------------------------------------------------------------------------
(* C1: a data frame of a known device whose counter is at or below the     *)
(* stored counter (an exact duplicate included) changes nothing: the stored *)
(* counter stays, no cluster is added, the registry is not notified and    *)
(* no cluster command is redispatched.                                      *)
C1_ReplayRejected ==
  [][ (DataFrameStep /\ StaleFrame(devices, last'))
        => /\ StoredCounter(devices', last'.ieee) = StoredCounter(devices, last'.ieee)
           /\ devices' = devices
           /\ sequence' = sequence
           /\ Effects(events') = {}
           /\ redispatched' = redispatched ]_vars

\* a duplicate of the frame that set the stored counter has been dropped
C1_Witness ==
  /\ last.op = "data_frame"
  /\ last.ieee \in DOMAIN devices
  /\ HasCounter(devices, last.ieee)
  /\ FrameCounter(last.data) = StoredCounter(devices, last.ieee)
  /\ FrameCommand(last.data) = 33
  /\ AcceptableMic(devices, last)
  /\ Logged(events, "Already get this frame counter,I ignoring it")

C3_NoDoubleTranslation ==
  /\ \A k \in DOMAIN redispatched : redispatched[k] <= 1
  /\ (last.op = "data_frame" /\ RedispatchesOf(events) # {})
       => /\ HasCounter(devices, last.ieee)
          /\ StoredCounter(devices, last.ieee) = FrameCounter(last.data)

\* a frame that had been redispatched was delivered again and dropped
C3_Witness ==
  /\ last.op = "data_frame"
  /\ <<last.ieee, FrameCounter(last.data)>> \in DOMAIN redispatched
  /\ redispatched[<<last.ieee, FrameCounter(last.data)>>] = 1
  /\ RedispatchesOf(events) = {}
  /\ FrameCommand(last.data) \in DOMAIN command
  /\ command[FrameCommand(last.data)].cluster_id # None

(* C4: over data frames, commissioning frames, create_device, permit and   *)
(* setKey calls, a device's stored replay counter never decreases and,     *)
(* once set, is never unset.                                                *)
C4_CounterMonotonic ==
  [][ \A i \in GreenPowerDevices(devices) :
        HasCounter(devices, i)
          => /\ i \in DOMAIN devices'
             /\ HasCounter(devices', i)
             /\ StoredCounter(devices', i) >= StoredCounter(devices, i) ]_vars

\* a device whose counter moved up from 0, after a later frame with counter 0
C4_Witness ==
  \E i \in GreenPowerDevices(devices) :
    /\ HasCounter(devices, i)
    /\ StoredCounter(devices, i) >= 1
    /\ <<i, 0>> \in DOMAIN redispatched
    /\ last.op = "data_frame"
    /\ last.ieee = i
    /\ FrameCounter(last.data) = 0

(* C5: for a device with a key, a data frame whose MIC differs from the    *)
(* MIC computed over header, identity, counter, command id and payload is  *)
(* dropped: the stored counter is unchanged even when the frame's counter  *)
(* is fresh, no cluster is added and nothing is redispatched.               *)
C5_WrongMicDropped ==
  [][ (DataFrameStep /\ WrongMic(devices, last'))
        => /\ devices' = devices
           /\ sequence' = sequence
           /\ Effects(events') = {}
           /\ redispatched' = redispatched
           /\ last'.raised = "" ]_vars

\* a frame with a fresh counter and a recognized command was dropped for
\* its MIC
C5_Witness ==
  /\ last.op = "data_frame"
  /\ last.ieee \in DOMAIN devices
  /\ WrongMic(devices, last)
  /\ FreshFrame(devices, last)
  /\ FrameCommand(last.data) = 33
  /\ Logged(events, "Wrong mic, ignore frame")

---------------------------------------------------------------------------
(* Vocabulary of the commissioning properties *)

\* the step handles a commissioning frame, or a create_device call without
\* (with) the override flag, for last'.ieee
CommissioningStep == last'.op = "commissioning_frame"
GatedCreateStep ==
  last'.op = "commissioning_frame" \/ (last'.op = "create_device" /\ ~last'.flag)
OverrideCreateStep == last'.op = "create_device" /\ last'.flag
CreateStep == GatedCreateStep \/ OverrideCreateStep

\* the window as the gate of create_device reads it: closed when never
\* permitted, or when its expiry (whole seconds) lies before the current time
NeverPermitted(devs, self) ==
  ATTR_joiningAllowUntil \notin DOMAIN ProxyCache(devs, self)
AlreadyExpired(devs, self) ==
  /\ ~NeverPermitted(devs, self)
  /\ ProxyCache(devs, self)[ATTR_joiningAllowUntil] * TicksPerSecond < now
WindowClosed(devs, self) == NeverPermitted(devs, self) \/ AlreadyExpired(devs, self)
WindowOpen(devs, self) == ~WindowClosed(devs, self)

\* the window by its definition: open iff current time < expiry
OpenUntilExpiry(devs, self) ==
  /\ ~NeverPermitted(devs, self)
  /\ now < ProxyCache(devs, self)[ATTR_joiningAllowUntil] * TicksPerSecond

\* both endpoints, with the basic-info and the proxy cluster
FullyConstructed(dev) ==
  /\ DOMAIN dev.endpoints = {1, endpoint_id}
  /\ Basic_cluster_id \in DOMAIN dev.endpoints[1].in_clusters
  /\ cluster_id \in DOMAIN dev.endpoints[endpoint_id].in_clusters

Announcements(evs, ieee) ==
  { i \in DOMAIN evs : evs[i].kind = "device_initialized" /\ evs[i].dev = ieee }

\* the registry but for the entry of ieee
Others(devs, ieee) == [i \in DOMAIN devs \ {ieee} |-> devs[i]]

(* C6: a commissioning frame without override for an identity that is not  *)
(* registered creates no device and changes nothing when the window is     *)
(* closed (never permitted, or expired: not current time < expiry); and a  *)
(* device enters the registry only through a step taken while the window   *)
(* is open or with the override flag.                                       *)
C6_CommissioningGate ==
  [][ /\ ( /\ GatedCreateStep
           /\ last'.ieee \notin DOMAIN devices
           /\ ~OpenUntilExpiry(devices, last'.self) )
        => /\ devices' = devices
           /\ sequence' = sequence
           /\ Effects(events') = {}
           /\ last'.ret = <<>>
      /\ DOMAIN devices' # DOMAIN devices
        => \/ OverrideCreateStep
           \/ GatedCreateStep /\ OpenUntilExpiry(devices, last'.self) ]_vars

(* C7: a commissioning frame for an unknown identity handled while the     *)
(* window is open, or create_device with the override flag, creates one    *)
(* device under that identity, with endpoint 1 (basic-info) and endpoint   *)
(* 242 (proxy), and announces it to the registry exactly once.              *)
C7_CommissioningAccepted ==
  [][ ( /\ last'.ieee \notin DOMAIN devices
        /\ \/ GatedCreateStep /\ WindowOpen(devices, last'.self)
           \/ OverrideCreateStep )
        => /\ DOMAIN devices' = DOMAIN devices \cup {last'.ieee}
           /\ Others(devices', last'.ieee) = devices
           /\ FullyConstructed(devices'[last'.ieee])
           /\ Cardinality(Announcements(events', last'.ieee)) = 1
           /\ Effects(events') = {"device_initialized"} ]_vars

\* a commissioning frame created the device while the window was open
C7_Witness ==
  /\ last.op = "commissioning_frame"
  /\ last.ieee \in DOMAIN devices
  /\ WindowOpen(devices, last.self)
  /\ FullyConstructed(devices[last.ieee])
  /\ Cardinality(Announcements(events, last.ieee)) = 1

(* C8: a commissioning frame or create_device call for an identity that is *)
(* registered changes nothing, whether the window is open or closed and    *)
(* whatever type it carries: no device, endpoint or cluster is added, the  *)
(* label, counter and key stay, nothing is announced; create_device        *)
(* returns the existing device.                                             *)
C8_CommissioningIdempotent ==
  [][ (CreateStep /\ last'.ieee \in DOMAIN devices)
        => /\ devices' = devices
           /\ sequence' = sequence
           /\ events' = <<>>
           /\ last'.raised = ""
           /\ last'.op = "create_device" => last'.ret = <<last'.ieee>> ]_vars

\* a commissioning frame of another type arrived, the window closed, for a
\* device that has a key and a counter: nothing was emitted
C8_Witness ==
  /\ last.op = "commissioning_frame"
  /\ last.ieee \in DOMAIN devices
  /\ WindowClosed(devices, last.self)
  /\ HasKey(devices, last.ieee)
  /\ HasCounter(devices, last.ieee)
  /\ devices[last.ieee].endpoints[1].in_clusters[Basic_cluster_id][5] = "On/Off Switch"
  /\ last.arg # 2
  /\ events = <<>>

(* C9: whenever a handler can run, every proxy-represented device of the   *)
(* registry has endpoint 1 and endpoint 242; a device becomes visible in a *)
(* step that has built both endpoints and notified the registry.            *)
C9_NoPartialDevice ==
  /\ [](\A i \in GreenPowerDevices(devices) : FullyConstructed(devices[i]))
  /\ [][ \A i \in DOMAIN devices' \ DOMAIN devices :
           /\ FullyConstructed(devices'[i])
           /\ Announcements(events', i) # {} ]_vars

\* a key was provisioned on the proxy cluster of a created device
C9_Witness ==
  /\ last.op = "setKey"
  /\ last.raised = ""
  /\ last.self \in GreenPowerDevices(devices)
  /\ FullyConstructed(devices[last.self])

(* C10: a data frame whose identity is not registered is dropped without    *)
(* effect: no device is created, even while the window is open, no counter *)
(* or key is touched and nothing is redispatched.                           *)
C10_UnknownIdentity ==
  [][ (last'.op = "data_frame" /\ last'.ieee \notin DOMAIN devices)
        => /\ devices' = devices
           /\ sequence' = sequence
           /\ events' = <<>>
           /\ redispatched' = redispatched
           /\ last'.raised = "" ]_vars

\* a frame of an identity that was never commissioned arrived while the
\* window was open and another device was registered
C10_Witness ==
  /\ last.op = "data_frame"
  /\ last.ieee \notin DOMAIN devices
  /\ WindowOpen(devices, last.self)
  /\ GreenPowerDevices(devices) # {}
  /\ events = <<>>

---------------------------------------------------------------------------
(* Vocabulary of the authentication and administration properties *)

\* two data frames that differ at most in their MIC
SameButMic(d1, d2) ==
  /\ Len(d1) = Len(d2)
  /\ SubSeq(d1, 1, Len(d1) - 4) = SubSeq(d2, 1, Len(d2) - 4)

\* the step leaves the registry, the sequence number and the redispatch
\* history alone and calls no collaborator
NothingDone ==
  /\ devices' = devices
  /\ sequence' = sequence
  /\ redispatched' = redispatched
  /\ Effects(events') = {}

PermitStep == last'.op = "permit"
ValidDuration(d) == 0 <= d /\ d <= MAX_PERMIT_TIME

\* the expiry of the window of a proxy cluster, in whole seconds
HasExpiry(devs, self) == ATTR_joiningAllowUntil \in DOMAIN ProxyCache(devs, self)
Expiry(devs, self) == ProxyCache(devs, self)[ATTR_joiningAllowUntil]

\* the announcements broadcast in a step
Broadcasts(evs) == { i \in DOMAIN evs : evs[i].kind = "broadcast" }

(* C12: permit(d) with d < 0 or d > 254 fails and has no effect: the       *)
(* expiry of the window is unchanged, no sequence number is consumed and   *)
(* nothing is broadcast.                                                    *)
C12_PermitValidation ==
  [][ (PermitStep /\ ~ValidDuration(last'.arg))
        => /\ last'.raised = "AssertionError"
           /\ devices' = devices
           /\ sequence' = sequence
           /\ events' = <<>> ]_vars

\* permit(255) failed on a proxy cluster whose window had been set before
C12_Witness ==
  /\ last.op = "permit"
  /\ last.arg = MAX_PERMIT_TIME + 1
  /\ last.raised = "AssertionError"
  /\ HasExpiry(devices, last.self)
  /\ events = <<>>

(* C13: for every d in 0..254, permit(d) called at time T sets the expiry  *)
(* of the window to T + d, replacing any earlier expiry, and broadcasts    *)
(* exactly one commissioning-mode announcement carrying d.                  *)
C13_PermitSuccess ==
  [][ (PermitStep /\ ValidDuration(last'.arg))
        => /\ HasExpiry(devices', last'.self)
           /\ Expiry(devices', last'.self) * TicksPerSecond
                = now + last'.arg * TicksPerSecond
           /\ Cardinality(Broadcasts(events')) = 1
           /\ \A i \in Broadcasts(events') : events'[i].args = <<11, last'.arg>> ]_vars

(* C14: when the broadcast of the announcement fails, permit reports the   *)
(* failure to its caller and keeps the expiry it has set; a commissioning  *)
(* frame for a new identity handled before that expiry creates the device. *)
C14_PermitBestEffort ==
  [][ /\ ( /\ PermitStep
           /\ ValidDuration(last'.arg)
           /\ ~last'.flag )
        => /\ last'.raised = "DeliveryError"
           /\ HasExpiry(devices', last'.self)
           /\ Expiry(devices', last'.self) = AllowUntil(last'.arg)
           /\ Others(devices', last'.self) = Others(devices, last'.self)
           /\ announced' = "failed"
      /\ ( /\ CommissioningStep
           /\ announced = "failed"
           /\ last'.ieee \notin DOMAIN devices
           /\ now < Expiry(devices, last'.self) * TicksPerSecond )
        => /\ last'.ieee \in DOMAIN devices'
           /\ FullyConstructed(devices'[last'.ieee])
           /\ Announcements(events', last'.ieee) # {} ]_vars

\* after time had passed, a commissioning frame created a device within a
\* window whose announcement was not delivered
C14_Witness ==
  /\ last.op = "commissioning_frame"
  /\ announced = "failed"
  /\ now > 0
  /\ now < Expiry(devices, last.self) * TicksPerSecond
  /\ Announcements(events, last.ieee) # {}
  /\ last.ieee \in DOMAIN devices

(* C15: setKey(None) on a device that has no key completes without error   *)
(* and leaves the key, the counter and all other state unchanged.           *)
C15_ClearAbsentKey ==
  [][ ( /\ last'.op = "setKey"
        /\ last'.flag
        /\ ~HasKey(devices, last'.self) )
        => /\ last'.raised = ""
           /\ devices' = devices
           /\ sequence' = sequence
           /\ events' = <<>> ]_vars

---------------------------------------------------------------------------
(* Vocabulary of the failure and OTA properties *)

\* the step handles one inbound proxy frame or one OTA request
InboundStep ==
  last'.op \in {"data_frame", "commissioning_frame", "malformed_frame",
                "query_next_image", "image_block", "upgrade_end", "unhandled"}

\* the responses sent in a step, and the one response of a step
Responses(evs) == { i \in DOMAIN evs : evs[i].kind = "ota_response" }
TheResponse(evs) == evs[CHOOSE i \in Responses(evs) : TRUE]

\* exactly one response, of that name, to the request's tsn, with those fields
RespondedWith(evs, f, name, args) ==
  /\ Cardinality(Responses(evs)) = 1
  /\ TheResponse(evs).msg = name
  /\ TheResponse(evs).tsn = f.arg
  /\ TheResponse(evs).args = args

\* the image the provider holds for the key of the request, <<>> if none
ImageFor(imgs, f) == get_ota_image(imgs, f.data[2], f.data[3])

\* a query_next_image request whose response is delivered; the provider
\* holds an image for it that the eligibility predicate accepts
QueryStep == last'.op = "query_next_image" /\ last'.flag
Eligible(imgs, f) ==
  /\ ImageFor(imgs, f) # <<>>
  /\ should_update(ImageFor(imgs, f)[1], f.data[2], f.data[3], f.data[4], f.data[5])

\* an image_block request whose response is delivered; the provider holds
\* an image of the requested version
BlockStep == last'.op = "image_block" /\ last'.flag
VersionMatches(imgs, f) ==
  /\ ImageFor(imgs, f) # <<>>
  /\ ImageFor(imgs, f)[1].version = f.data[4]

(* C16: a failure raised while one inbound proxy frame or one OTA request  *)
(* is handled does not reach the caller, and leaves the state as it was,   *)
(* so that the frames and requests that follow are handled as usual.        *)
C16_FailureIsolation ==
  [][ InboundStep
        => /\ last'.raised = ""
           /\ "exception" \in Effects(events')
                => /\ devices' = devices
                   /\ sequence' = sequence
                   /\ images' = images ]_vars

(* C17: query_next_image responds NO_IMAGE_AVAILABLE, with no vendor, type, *)
(* version or size field, whenever the provider has no image for the       *)
(* manufacturer and image type, and whenever it has one that the            *)
(* eligibility predicate rejects for the versions supplied.                 *)
C17_NoImageAvailable ==
  [][ (QueryStep /\ ~Eligible(images, last'))
        => /\ RespondedWith(events', last', "query_next_image_response",
                            <<"NO_IMAGE_AVAILABLE">>)
           /\ images' = images ]_vars

\* the provider held a newer image for the manufacturer, whose hardware
\* range did not hold the hardware version supplied
C17_Witness ==
  /\ last.op = "query_next_image"
  /\ last.flag
  /\ ImageFor(images, last) # <<>>
  /\ ImageFor(images, last)[1].version > last.data[4]
  /\ ImageFor(images, last)[1].hardware = <<1, 1>>
  /\ last.data[5] = 2
  /\ RespondedWith(events, last, "query_next_image_response", <<"NO_IMAGE_AVAILABLE">>)

(* C18: query_next_image responds SUCCESS exactly when the provider has an *)
(* image for the manufacturer and image type that is eligible, and the     *)
(* response then carries the manufacturer id, image type, version and      *)
(* total size of that image.                                                *)
C18_ImageOffered ==
  [][ QueryStep
        => /\ Cardinality(Responses(events')) = 1
           /\ TheResponse(events').args[1] = "SUCCESS" <=> Eligible(images, last')
           /\ Eligible(images, last')
                => LET img == ImageFor(images, last')[1]
                   IN RespondedWith(events', last', "query_next_image_response",
                                    <<"SUCCESS", img.key[1], img.key[2],
                                      img.version, img.image_size>>) ]_vars

\* a device running version 1, of a hardware version inside the range, was
\* offered the image of version 2
C18_Witness ==
  /\ last.op = "query_next_image"
  /\ last.flag
  /\ last.data[4] = 1
  /\ last.data[5] = 1
  /\ ImageFor(images, last) # <<>>
  /\ ImageFor(images, last)[1].hardware = <<1, 1>>
  /\ RespondedWith(events, last, "query_next_image_response",
                   <<"SUCCESS", ImageKey[1], ImageKey[2], 2,
                     ImageFor(images, last)[1].image_size>>)

(* C19: image_block responds ABORT, and sends no data, whenever the image  *)
(* resolved for the manufacturer and image type is missing or is not of    *)
(* the requested version; so it does for the request that follows a change *)
(* of the provider's image in the middle of a transfer.                     *)
C19_BlockAborted ==
  [][ (BlockStep /\ ~VersionMatches(images, last'))
        => /\ RespondedWith(events', last', "image_block_response", <<"ABORT">>)
           /\ served' = served ]_vars

\* a block of the image of one version had been sent, the provider's image
\* changed version, and the next block request of that transfer was aborted
C19_Witness ==
  /\ last.op = "image_block"
  /\ last.flag
  /\ served # None
  /\ last.data[4] = served
  /\ ImageFor(images, last) # <<>>
  /\ ImageFor(images, last)[1].version # served
  /\ RespondedWith(events, last, "image_block_response", <<"ABORT">>)

(* C20: image_block with a file offset equal to or beyond the total size   *)
(* of the image responds MALFORMED_COMMAND, for any image whose version is *)
(* the requested one.                                                       *)
C20_OffsetBeyondImage ==
  [][ ( /\ BlockStep
        /\ VersionMatches(images, last')
        /\ last'.data[5] >= ImageFor(images, last')[1].image_size )
        => RespondedWith(events', last', "image_block_response",
                         <<"MALFORMED_COMMAND">>) ]_vars

\* the bytes of the image at the positions offset .. offset + size - 1 that
\* lie inside the image
BytesInRange(img, offset, size) ==
  [i \in 1..Min(size, img.image_size - offset) |-> img.data[offset + i]]

(* C21: image_block with the version of the image and an offset inside the *)
(* image responds SUCCESS with the image's manufacturer id, image type and *)
(* version, the request's file offset as it came, and the bytes of the      *)
(* image from that offset, at most the maximum data size of them.           *)
C21_BlockServed ==
  [][ ( /\ BlockStep
        /\ VersionMatches(images, last')
        /\ last'.data[5] < ImageFor(images, last')[1].image_size )
        => LET img == ImageFor(images, last')[1]
           IN /\ RespondedWith(events', last', "image_block_response",
                               <<"SUCCESS", img.key[1], img.key[2], img.version,
                                 last'.data[5],
                                 BytesInRange(img, last'.data[5], last'.data[6])>>)
              /\ served' = img.version ]_vars

\* the second byte of an image of two bytes was asked for and sent
C21_Witness ==
  /\ last.op = "image_block"
  /\ last.flag
  /\ last.data[5] = 1
  /\ VersionMatches(images, last)
  /\ ImageFor(images, last)[1].image_size = 2
  /\ RespondedWith(events, last, "image_block_response",
                   <<"SUCCESS", ImageKey[1], ImageKey[2], last.data[4], 1,
                     <<16 * last.data[4] + 2>>>>)

(* C22: upgrade_end is always acknowledged, whatever status the device   *)
(* reports and whether or not the provider holds an image: the            *)
(* upgrade_end_response echoes the request's manufacturer id, image type  *)
(* and version, with current time 0 and upgrade time 0.                    *)
C22_UpgradeEndAcknowledged ==
  [][ (last'.op = "upgrade_end" /\ last'.flag)
        => /\ RespondedWith(events', last', "upgrade_end_response",
                            <<last'.data[2], last'.data[3], last'.data[4], 0, 0>>)
           /\ last'.raised = ""
           /\ images' = images ]_vars

\* a device reported ABORT for a key the provider holds no image for
C22_Witness ==
  /\ last.op = "upgrade_end"
  /\ last.flag
  /\ last.data[1] = "ABORT"
  /\ ImageFor(images, last) = <<>>
  /\ RespondedWith(events, last, "upgrade_end_response",
                   <<last.data[2], last.data[3], last.data[4], 0, 0>>)

---------------------------------------------------------------------------
(* C23: a data frame of a known device whose command id is not a key of  *)
(* the command table is dropped with no further effect: the stored counter *)
(* is not advanced, even when the frame's counter is fresh, no cluster is  *)
(* added and nothing is redispatched.                                       *)
C23_UnknownCommandDropped ==
  [][ (DataFrameStep /\ FrameCommand(last'.data) \notin DOMAIN command)
        => /\ devices' = devices
           /\ sequence' = sequence
           /\ Effects(events') = {}
           /\ Logged(events', "Unhandled command_id")
           /\ redispatched' = redispatched
           /\ last'.raised = "" ]_vars

\* a frame with a fresh counter, the MIC of the device's key and the
\* command id 0x99 was dropped
C23_Witness ==
  /\ last.op = "data_frame"
  /\ last.ieee \in DOMAIN devices
  /\ FrameCommand(last.data) = 153
  /\ HasKey(devices, last.ieee)
  /\ AcceptableMic(devices, last)
  /\ HasCounter(devices, last.ieee)
  /\ FrameCounter(last.data) > StoredCounter(devices, last.ieee)
  /\ Logged(events, "Unhandled command_id")

\* the frame is accepted: of a registered device, with a command id of the
\* table, a payload its schema reads, an acceptable MIC and a fresh counter
AcceptedFrame(devs, f) ==
  /\ f.ieee \in DOMAIN devs
  /\ FrameCommand(f.data) \in DOMAIN command
  /\ Deserializable(f)
  /\ AcceptableMic(devs, f)
  /\ FreshFrame(devs, f)

\* the entry of the command table the frame's command id maps to
FrameEntry(f) == command[FrameCommand(f.data)]

\* the invocations handed to output clusters in a step, in order
Invocations(evs) == SelectSeq(evs, LAMBDA e : e.kind = "cluster_command")

(* C24: an accepted frame whose command id maps to an entry with a target  *)
(* cluster gives exactly one invocation, at endpoint 1 of the frame's      *)
(* device, of the entry's target cluster id and target command id, whose   *)
(* arguments are the entry's fixed leading values followed by the values   *)
(* read from the payload by the entry's schema, in that order; Move Up     *)
(* (0x30) with the payload byte 5 gives cluster 8, command 1, (1, 5).      *)
C24_Translation ==
  [][ ( /\ last'.op = "data_frame"
        /\ AcceptedFrame(devices, last')
        /\ FrameEntry(last').cluster_id # None )
        => /\ Len(Invocations(events')) = 1
           /\ Invocations(events')[1].dev = last'.ieee
           /\ Invocations(events')[1].cluster = FrameEntry(last').cluster_id
           /\ Invocations(events')[1].command = FrameEntry(last').zcl_command_id
           /\ Invocations(events')[1].args =
                FrameEntry(last').value \o
                  deserialize(FramePayload(last'.data), FrameEntry(last').schema).values
           /\ Invocations(events')[1].tsn = sequence'
           /\ FrameEntry(last').cluster_id \in devices'[last'.ieee].endpoints[1].out_clusters
           /\ (FrameCommand(last'.data) = 48 /\ FramePayload(last'.data) = <<5>>)
                => /\ Invocations(events')[1].cluster = 8
                   /\ Invocations(events')[1].command = 1
                   /\ Invocations(events')[1].args = <<1, 5>> ]_vars

\* Move Up with the rate 5, signed with the device's key, was invoked at
\* the level control cluster with the arguments (1, 5)
C24_Witness ==
  /\ last.op = "data_frame"
  /\ last.ieee \in DOMAIN devices
  /\ HasKey(devices, last.ieee)
  /\ AcceptableMic(devices, last)
  /\ FrameCommand(last.data) = 48
  /\ FramePayload(last.data) = <<5>>
  /\ Len(Invocations(events)) = 1
  /\ Invocations(events)[1].cluster = 8
  /\ Invocations(events)[1].args = <<1, 5>>

\* what a step did to the outside, in order: the kinds of its events other
\* than log lines
Outcome(evs) ==
  LET done == SelectSeq(evs, LAMBDA e : e.kind # "log")
  IN [i \in DOMAIN done |-> done[i].kind]

\* the output clusters of endpoint 1 of a device
OutClusters(devs, ieee) == devs[ieee].endpoints[1].out_clusters

(* C25: when an accepted frame targets a cluster that is not among the     *)
(* output clusters of endpoint 1, the cluster is added and the registry is *)
(* notified before the redispatch; when the cluster is there already, no   *)
(* cluster is added and the registry is not notified.  The target of every *)
(* redispatch is among the output clusters after it, and no step takes an  *)
(* output cluster from a device, so that after any sequence of frames the  *)
(* output clusters hold every cluster that ever was a redispatch target.    *)
C25_OnDemandCluster ==
  [][ /\ ( /\ last'.op = "data_frame"
           /\ AcceptedFrame(devices, last')
           /\ FrameEntry(last').cluster_id # None )
        => LET target == FrameEntry(last').cluster_id
           IN /\ target \notin OutClusters(devices, last'.ieee)
                   => /\ Outcome(events') = <<"add_output_cluster",
                                              "device_initialized", "cluster_command">>
                      /\ events'[2].cluster = target /\ events'[2].dev = last'.ieee
                      /\ events'[3].dev = last'.ieee
              /\ target \in OutClusters(devices, last'.ieee)
                   => /\ Outcome(events') = <<"cluster_command">>
                      /\ devices' = [devices EXCEPT
                           ![last'.ieee].endpoints[endpoint_id].in_clusters[cluster_id] =
                              devices'[last'.ieee].endpoints[endpoint_id].in_clusters[cluster_id]]
              /\ OutClusters(devices', last'.ieee) =
                   OutClusters(devices, last'.ieee) \cup {target}
      /\ \A e \in { events'[i] : i \in RedispatchesOf(events') } :
           e.cluster \in OutClusters(devices', e.dev)
      /\ \A i \in GreenPowerDevices(devices) :
           /\ i \in DOMAIN devices'
           /\ OutClusters(devices, i) \subseteq OutClusters(devices', i) ]_vars

\* the level control cluster, which no device type of the model brings, had
\* been added for an earlier frame, and Move Up was redispatched to it with
\* no cluster added and no notification
C25_Witness ==
  /\ last.op = "data_frame"
  /\ last.ieee \in DOMAIN devices
  /\ FrameCommand(last.data) = 48
  /\ FrameCounter(last.data) = 1
  /\ <<last.ieee, 0>> \in DOMAIN redispatched
  /\ 8 \in OutClusters(devices, last.ieee)
  /\ Outcome(events) = <<"cluster_command">>

\* the command ids whose entry has no target cluster
NoTargetIds == { k \in DOMAIN command : command[k].cluster_id = None }

(* C26: the entries with no target cluster are those of the command ids    *)
(* 0x00, 0x23, 0x60-0x68 and 0x6A.  A data frame of a known device with    *)
(* such a command id is never redispatched: it adds no output cluster,     *)
(* sends no registry notification and invokes no cluster command.  It is   *)
(* still subject to the MIC and replay checks: with a wrong MIC or a stale *)
(* counter it changes nothing, and when it is accepted the stored counter  *)
(* advances to its counter and nothing else changes.                        *)
C26_NoTargetNotRedispatched ==
  [][ /\ NoTargetIds = {0, 35, 106} \cup (96..104)
      /\ ( /\ DataFrameStep
           /\ FrameCommand(last'.data) \in NoTargetIds )
        => /\ Effects(events') = {}
           /\ sequence' = sequence
           /\ redispatched' = redispatched
           /\ devices'[last'.ieee].endpoints[1] = devices[last'.ieee].endpoints[1]
           /\ (WrongMic(devices, last') \/ StaleFrame(devices, last'))
                => devices' = devices
           /\ AcceptedFrame(devices, last')
                => /\ last'.raised = ""
                   /\ devices' = [devices EXCEPT
                        ![last'.ieee].endpoints[endpoint_id].in_clusters[cluster_id] =
                           DictSet(@, ATTR_counter, FrameCounter(last'.data))] ]_vars

\* an Identify frame with the MIC of the device's key moved the stored
\* counter from 0 to 1 and nothing was redispatched
C26_Witness ==
  /\ last.op = "data_frame"
  /\ last.ieee \in DOMAIN devices
  /\ FrameCommand(last.data) = 0
  /\ HasKey(devices, last.ieee)
  /\ AcceptableMic(devices, last)
  /\ FrameCounter(last.data) = 1
  /\ StoredCounter(devices, last.ieee) = 1
  /\ <<last.ieee, 0>> \in DOMAIN redispatched
  /\ ~Logged(events, "Already get this frame counter,I ignoring it")
  /\ Effects(events) = {}

\* the frame is a commissioning frame: its first byte is 12 and its 6th
\* byte is 224
CommissioningMarked(data) ==
  /\ Len(data) >= 6
  /\ data[1] = 12
  /\ data[6] = 224

(* C27: a frame whose first byte is 12 and whose 6th byte is 224 is routed *)
(* to create_device only, with the doubled bytes 2-5 as identity and byte 7 *)
(* as device type, whatever the rest of its bytes are: the step does what  *)
(* create_device without override does; no MIC is verified and no counter  *)
(* is checked, so neither the key nor the counter of the device decides    *)
(* the outcome; no registered device changes, its stored counter and key   *)
(* included, and nothing is redispatched.                                   *)
C27_CommissioningUnauthenticated ==
  [][ ( /\ last'.op \in {"commissioning_frame", "malformed_frame", "data_frame"}
        /\ CommissioningMarked(last'.data) )
        => /\ \A i \in GreenPowerDevices(devices) :
                i \in DOMAIN devices' /\ devices'[i] = devices[i]
           /\ sequence' = sequence
           /\ redispatched' = redispatched
           /\ Effects(events') \subseteq {"device_initialized"}
           /\ Len(last'.data) >= 7
                => LET ieee == SubSeq(last'.data, 2, 5) \o SubSeq(last'.data, 2, 5)
                       r == create_device(devices, sequence, last'.self, ieee,
                                          last'.data[7], FALSE)
                   IN /\ devices' = r.devices
                      /\ events' = r.events
                      /\ last'.raised = ""
                      /\ last'.ieee = ieee ]_vars

\* a commissioning frame whose tail reads as a fresh counter and an On
\* command came for a device with a key and a stored counter of 0, and
\* nothing was stored or redispatched
C27_Witness ==
  /\ last.op = "commissioning_frame"
  /\ last.data = CommissioningFrameWithTail(<<1, 2, 3, 4>>, 2)
  /\ last.ieee \in DOMAIN devices
  /\ HasKey(devices, last.ieee)
  /\ HasCounter(devices, last.ieee)
  /\ StoredCounter(devices, last.ieee) = 0
  /\ Effects(events) = {}

---------------------------------------------------------------------------
(* C28: the commissioning window is open exactly when current time <       *)
(* expiry: a commissioning frame, or a create_device call without          *)
(* override, for an identity that is not registered creates a device if    *)
(* and only if the time it is handled at is before the expiry; it is       *)
(* rejected at the expiry itself and when permit was never called.          *)
C28_WindowBoundary ==
  [][ ( /\ GatedCreateStep
        /\ last'.ieee \notin DOMAIN devices )
        => ( last'.ieee \in DOMAIN devices'
               <=> OpenUntilExpiry(devices, last'.self) ) ]_vars

\* the expiry of the window as a proxy cluster holds it, None when it
\* holds none
WindowOf(devs, self) ==
  IF self \in Proxies(devs) /\ HasExpiry(devs, self) THEN Expiry(devs, self)
  ELSE None

\* the step handles an OTA request
OtaStep == last'.op \in {"query_next_image", "image_block", "upgrade_end"}

(* C29: the expiry of the commissioning window is changed only by a permit *)
(* call with a valid duration: handling a data frame, a commissioning      *)
(* frame (accepted or rejected), a setKey call or an OTA request leaves    *)
(* the expiry every proxy cluster holds as it was, and a device that       *)
(* enters the registry holds none.                                          *)
C29_ExpiryOnlyByPermit ==
  [][ /\ \A i \in Proxies(devices') :
           WindowOf(devices', i) # WindowOf(devices, i)
             => /\ PermitStep
                /\ ValidDuration(last'.arg)
      /\ Proxies(devices) \subseteq Proxies(devices')
      /\ ( \/ last'.op \in {"data_frame", "commissioning_frame", "setKey"}
           \/ OtaStep )
        => \A i \in Proxies(devices') : WindowOf(devices', i) = WindowOf(devices, i) ]_vars

\* with the window open, a device had come in by a commissioning frame, its
\* On frame had been redispatched, it holds a key, and an OTA request was
\* handled: the expiry is the one permit(1) set at time 0
C29_Witness ==
  /\ last.op = "image_block"
  /\ WindowOf(devices, CoordinatorIeee) = 1
  /\ announced = "delivered"
  /\ \E i \in Proxies(devices) \ ProxyHosts :
       /\ HasKey(devices, i)
       /\ <<i, 0>> \in DOMAIN redispatched
       /\ WindowOf(devices, i) = None

\* some proxy cluster of the process holds an expiry the current time is
\* before
OpenSomewhere(devs) ==
  \E h \in Proxies(devs) :
    /\ HasExpiry(devs, h)
    /\ now < Expiry(devs, h) * TicksPerSecond

(* C30: the commissioning window is one expiry for the whole process:      *)
(* after a permit call with a valid duration on any proxy cluster, a       *)
(* commissioning frame for an identity that is not registered, handled     *)
(* before the expiry by any proxy cluster, the same one or another,        *)
(* creates the device.                                                      *)
C30_ProcessWideWindow ==
  [][ ( /\ CommissioningStep
        /\ last'.ieee \notin DOMAIN devices
        /\ OpenSomewhere(devices) )
        => last'.ieee \in DOMAIN devices' ]_vars


\* a setKey call, and the 16 bytes its argument stands for
SetKeyStep == last'.op = "setKey"
KeyGiven(f) == IF f.arg # None THEN to_bytes_big(f.arg, 16) ELSE f.data

\* the replay counter every registered device holds is the same after the
\* step as before
CountersKept ==
  \A i \in DOMAIN devices :
    /\ i \in DOMAIN devices'
    /\ HasCounter(devices', i) = HasCounter(devices, i)
    /\ HasCounter(devices, i)
         => StoredCounter(devices', i) = StoredCounter(devices, i)

\* the key every registered device holds is the same after the step
KeysKept ==
  \A i \in DOMAIN devices :
    /\ i \in DOMAIN devices'
    /\ HasKey(devices', i) = HasKey(devices, i)
    /\ HasKey(devices, i) => StoredKey(devices', i) = StoredKey(devices, i)

\* the data frame of the step was taken: its counter was stored
Taken == devices' # devices

(* C31: setKey with a 16-byte key (or the integer standing for one) leaves *)
(* the device holding exactly that key, setKey(None) on a device holding a *)
(* key leaves it without one, no setKey call changes any stored replay     *)
(* counter, and no other operation changes the key of a registered device. *)
(* A data frame of a device holding a key is taken only if its MIC is the  *)
(* one computed under the stored key; a fresh, translatable frame of a     *)
(* device holding no key is taken whatever its MIC.                        *)
C31_KeyProvisioning ==
  [][ /\ (SetKeyStep /\ ~last'.flag)
        => /\ Len(KeyGiven(last')) = 16
           /\ HasKey(devices', last'.self)
           /\ StoredKey(devices', last'.self) = KeyGiven(last')
      /\ (SetKeyStep /\ last'.flag /\ HasKey(devices, last'.self))
        => /\ ~HasKey(devices', last'.self)
           /\ last'.raised = ""
      /\ SetKeyStep => CountersKept
      /\ ~SetKeyStep => KeysKept
      /\ (DataFrameStep /\ HasKey(devices, last'.ieee) /\ Taken)
        => /\ ExpectedMic(devices, last').raised = ""
           /\ ExpectedMic(devices, last').ret = FrameMic(last'.data)
      /\ ( /\ DataFrameStep
           /\ ~HasKey(devices, last'.ieee)
           /\ FrameCommand(last'.data) \in DOMAIN command
           /\ Deserializable(last')
           /\ FreshFrame(devices, last') )
        => /\ Taken
           /\ StoredCounter(devices', last'.ieee) = FrameCounter(last'.data) ]_vars

\* a device whose counter stood at 1 had its key replaced by another one:
\* it holds the second key and its counter is still 1
C31_Witness ==
  /\ last.op = "setKey"
  /\ ~last.flag
  /\ last.data = Key2
  /\ StoredKey(devices, last.self) = Key2
  /\ HasCounter(devices, last.self)
  /\ StoredCounter(devices, last.self) = 1
  /\ <<last.self, 1>> \in DOMAIN redispatched


\* a request of a command the cluster has no handler for
UnhandledStep == last'.op = "unhandled"

(* C35: every query_next_image, image_block and upgrade_end request whose  *)
(* response the transport delivers produces exactly one response, and it   *)
(* carries the transaction sequence number of the request, whatever the    *)
(* provider holds: no image, an image of another version, an image the     *)
(* offset lies outside of, an image whose size is 0; a command without     *)
(* handler produces no response.                                            *)
C35_OneResponsePerRequest ==
  [][ /\ (OtaStep /\ last'.flag)
        => /\ Cardinality(Responses(events')) = 1
           /\ TheResponse(events').tsn = last'.arg
      /\ UnhandledStep => Responses(events') = {} ]_vars


\* the responses among what a step emitted, in the order they were sent
IsResponse(e) == e.kind = "ota_response"
ResponsesIn(evs) == SelectSeq(evs, IsResponse)

\* a segment of a coroutine ran, or a coroutine was created
TaskSegmentStep ==
  last'.op \in {"ota_schedule", "ota_enter", "ota_lookup", "ota_send"}

\* what the request of a coroutine is answered with when its handler runs
\* alone, from start to end, against a catalogue
AnsweredAlone(imgs, task, delivered) ==
  ResponsesIn(handle_cluster_request(imgs, task.hdr, task.args, delivered).events)

(* C32: when the OTA coroutines of two devices are interleaved at their    *)
(* awaits (the image lookup, the sending of the response) with each other  *)
(* and with changes of the provider's catalogue, what a coroutine sends is *)
(* what its handler sends when it runs alone against the catalogue its own *)
(* lookup saw; a coroutine that ends without sending would send nothing    *)
(* alone; no segment sends before the last; and no segment changes the     *)
(* registry, the sequence counter, the catalogue or the other coroutine.   *)
C32_IndependentRequests ==
  [][ /\ last'.op = "ota_send"
        => ResponsesIn(events')
             = AnsweredAlone(tasks[last'.self].seen, tasks[last'.self], last'.flag)
      /\ last'.op \in {"ota_schedule", "ota_enter", "ota_lookup"}
        => ResponsesIn(events') = <<>>
      /\ ( /\ last'.op \in {"ota_enter", "ota_lookup"}
           /\ tasks'[last'.self].pc = "idle" )
        => AnsweredAlone(images, tasks[last'.self], TRUE) = <<>>
      /\ TaskSegmentStep
        => /\ UNCHANGED <<devices, sequence, now, redispatched, announced, images>>
           /\ \A c \in OtaClients \ {last'.self} : tasks'[c] = tasks[c] ]_vars

\* the first client was sent the block of version 1 its lookup had found,
\* after the provider had moved on to version 2 and while the second
\* client, which had looked up another catalogue, waited to send
C32_Witness ==
  /\ last.op = "ota_send"
  /\ last.self = 1
  /\ last.flag
  /\ Cardinality(Responses(events)) = 1
  /\ TheResponse(events).msg = "image_block_response"
  /\ TheResponse(events).args[1] = "SUCCESS"
  /\ TheResponse(events).args[4] = 1
  /\ TheResponse(events).tsn = TsnOf(1)
  /\ images = (ImageKey :> Image(2, 1, <<>>))
  /\ tasks[2].pc = "send"
  /\ tasks[2].seen = EmptyDict
  /\ tasks[2].resp[1] = "query_next_image_response"


\* the replay counter a registered device holds is another one after the
\* step
CounterWritten(i) ==
  /\ i \in DOMAIN devices'
  /\ HasCounter(devices', i)
  /\ ~HasCounter(devices, i) \/ StoredCounter(devices', i) # StoredCounter(devices, i)

(* C33: handling one proxy frame is one step. A stored replay counter is   *)
(* written only in the step of a data frame of that device, and that frame *)
(* is judged against the state the same step starts from: its MIC is the   *)
(* one under the key held then, its counter is above the counter held      *)
(* then, and the counter stored and the redispatch are those of this frame.*)
(* A device enters the registry only in the step of the commissioning      *)
(* frame or create_device call that names it.                              *)
C33_FrameHandlingAtomic ==
  [][ /\ \A i \in DOMAIN devices :
           CounterWritten(i)
             => /\ DataFrameStep
                /\ last'.ieee = i
                /\ AcceptedFrame(devices, last')
                /\ StoredCounter(devices', i) = FrameCounter(last'.data)
                /\ \A e \in RedispatchesOf(events') : events'[e].dev = i
                /\ redispatched'
                     = CountRedispatch(redispatched, events', FrameCounter(last'.data))
      /\ \A i \in DOMAIN devices' \ DOMAIN devices :
           CreateStep /\ last'.ieee = i
      /\ ~DataFrameStep => redispatched' = redispatched ]_vars

\* a frame with counter 1 was taken in one step from a device that had
\* been given a key and whose counter stood at 0: counter 1 is stored and
\* its command went out once
C33_Witness ==
  /\ last.op = "data_frame"
  /\ last.ieee \in DOMAIN devices
  /\ HasKey(devices, last.ieee)
  /\ FrameCounter(last.data) = 1
  /\ HasCounter(devices, last.ieee)
  /\ StoredCounter(devices, last.ieee) = 1
  /\ <<last.ieee, 0>> \in DOMAIN redispatched
  /\ Count(redispatched, <<last.ieee, 1>>) = 1
  /\ Cardinality(RedispatchesOf(events)) = 1


\* the elements of a Python list
ListItems(l) == { l[k] : k \in DOMAIN l }

\* endpoint 1 of a registered device: the label its basic-info cluster
\* holds, its input clusters and its output clusters
Endpoint1(devs, i) == devs[i].endpoints[1]
Label(devs, i) == Endpoint1(devs, i).in_clusters[Basic_cluster_id][5]
InputClusters(devs, i) == DOMAIN Endpoint1(devs, i).in_clusters

(* C34: a device created with a type code that is a key of the type table  *)
(* holds that entry's label, and endpoint 1 has the basic-info cluster and *)
(* exactly the entry's input clusters as input clusters and exactly the    *)
(* entry's output clusters as output clusters; a device created with a     *)
(* code that is no key of the table, or with none, holds the label         *)
(* GreenPowerDevice and has the basic-info cluster only.                   *)
C34_DeviceLabeling ==
  [][ \A i \in DOMAIN devices' \ DOMAIN devices :
        /\ CreateStep
        /\ last'.ieee = i
        /\ (last'.arg # None /\ last'.arg \in DOMAIN device)
             => /\ Label(devices', i) = device[last'.arg].name
                /\ InputClusters(devices', i)
                     = {Basic_cluster_id} \cup ListItems(device[last'.arg].in_clusters)
                /\ Endpoint1(devices', i).out_clusters
                     = ListItems(device[last'.arg].out_clusters)
        /\ (last'.arg = None \/ last'.arg \notin DOMAIN device)
             => /\ Label(devices', i) = "GreenPowerDevice"
                /\ InputClusters(devices', i) = {Basic_cluster_id}
                /\ Endpoint1(devices', i).out_clusters = {} ]_vars

\* a commissioning frame of type 17 created a light sensor: endpoint 1 has
\* the illuminance cluster next to the basic-info cluster and no output
\* cluster
C34_Witness ==
  /\ last.op = "commissioning_frame"
  /\ last.arg = 17
  /\ last.ieee \in DOMAIN devices
  /\ Label(devices, last.ieee) = "Light Sensor"
  /\ InputClusters(devices, last.ieee) = {Basic_cluster_id, 1024}
  /\ Endpoint1(devices, last.ieee).out_clusters = {}
  /\ Logged(events, "Device not found, create it")


\* the integer is one that n bytes hold
FitsBytes(x, n) == x >= 0 /\ x \div (256 ^ (n - 1)) < 256

(* C36: for a device that holds a key, the MIC of a data frame of any      *)
(* command of the table, with a payload of any length its schema allows,   *)
(* is computed and is a 4-byte value; handling the frame raises nothing,   *)
(* and a fresh frame that carries that MIC is taken.                        *)
C36_MicFitsBlock ==
  [][ ( /\ DataFrameStep
        /\ HasKey(devices, last'.ieee)
        /\ FrameCommand(last'.data) \in DOMAIN command
        /\ Deserializable(last') )
        => /\ ExpectedMic(devices, last').raised = ""
           /\ FitsBytes(ExpectedMic(devices, last').ret, 4)
           /\ last'.raised = ""
           /\ ( /\ ExpectedMic(devices, last').ret = FrameMic(last'.data)
                /\ FreshFrame(devices, last') )
                => Taken ]_vars


\* the frame of the step is of a registered device and names a command of
\* the table, its payload is not what the schema of the command reads, and
\* it passes the MIC check
UnreadableStep ==
  /\ DataFrameStep
  /\ FrameCommand(last'.data) \in DOMAIN command
  /\ ~Deserializable(last')
  /\ AcceptableMic(devices, last')

\* the frames of the environment that carry a command with the argument
\* its schema requires
WellFormedFrames ==
  { d \in DataFrames : <<FrameCommand(d), FramePayload(d)>> \in PayloadBodies }

\* d is a frame of the same device with the same counter as the frame of
\* the step, and would have been taken in place of it
TakenInstead(d) ==
  /\ FrameIeee(d) = last'.ieee
  /\ FrameCounter(d) = FrameCounter(last'.data)
  /\ AcceptedFrame(devices, [last' EXCEPT !.data = d])

(* C37: a data frame whose payload cannot be read per the schema of its    *)
(* command fails with the error of the deserializer and changes nothing:   *)
(* the registry, with the device's counter, key and clusters, and the      *)
(* sequence counter stay as they were and nothing is redispatched; any     *)
(* well-formed frame with the same counter that would have been taken      *)
(* before is still taken afterwards.                                        *)
C37_UnreadablePayload ==
  [][ UnreadableStep
        => /\ last'.raised = "ValueError"
           /\ devices' = devices
           /\ sequence' = sequence
           /\ redispatched' = redispatched
           /\ Effects(events') = {}
           /\ \A d \in WellFormedFrames :
                TakenInstead(d)
                  => \E r \in {handle_message(devices', sequence', last'.self, d)} :
                       /\ r.raised = ""
                       /\ StoredCounter(r.devices, last'.ieee) = FrameCounter(d) ]_vars

\* Move Up without its rate, with counter 1 and the MIC of the device's
\* key, failed at a device whose counter stood at 0: the counter is still
\* 0, and Move Up with the rate 5 and counter 1 is a frame that is taken
C37_Witness ==
  /\ last.op = "data_frame"
  /\ last.raised = "ValueError"
  /\ last.ieee \in DOMAIN devices
  /\ HasKey(devices, last.ieee)
  /\ FrameCommand(last.data) = 48
  /\ FramePayload(last.data) = <<>>
  /\ FrameCounter(last.data) = 1
  /\ HasCounter(devices, last.ieee)
  /\ StoredCounter(devices, last.ieee) = 0
  /\ \E d \in WellFormedFrames :
       /\ FrameCommand(d) = 48
       /\ FramePayload(d) = <<5>>
       /\ FrameCounter(d) = 1
       /\ AcceptedFrame(devices, [last EXCEPT !.data = d])


(* C38: handling a data frame that carries the identity of one device      *)
(* leaves every other registered device, the coordinator included, as it   *)
(* was: its counter, key, endpoints and clusters; whether the frame is     *)
(* taken depends on the state of its own device only, whatever counters    *)
(* the other devices hold; and every redispatch of the step goes to an     *)
(* output cluster of endpoint 1 of the device of the frame.                *)
C38_PerDeviceIsolation ==
  [][ DataFrameStep
        => /\ \A b \in DOMAIN devices \ {last'.ieee} :
                b \in DOMAIN devices' /\ devices'[b] = devices[b]
           /\ DOMAIN devices' = DOMAIN devices
           /\ \A e \in RedispatchesOf(events') :
                /\ events'[e].dev = last'.ieee
                /\ events'[e].cluster
                     \in Endpoint1(devices', last'.ieee).out_clusters
           /\ AcceptedFrame(devices, last')
                => /\ Taken
                   /\ StoredCounter(devices', last'.ieee) = FrameCounter(last'.data)
                   /\ command[FrameCommand(last'.data)].cluster_id # None
                        => Cardinality(RedispatchesOf(events')) = 1
           /\ ~AcceptedFrame(devices, last') => devices' = devices ]_vars

\* the frame with counter 1 of a device without key was taken while the
\* other device, which has a key, had already used the counter 1: both
\* hold counter 1, and counter 1 of each was redispatched once
C38_Witness ==
  /\ last.op = "data_frame"
  /\ \E b \in GreenPowerDevices(devices) \ {last.ieee} :
       /\ last.ieee \in DOMAIN devices
       /\ HasCounter(devices, last.ieee)
       /\ StoredCounter(devices, last.ieee) = 1
       /\ HasCounter(devices, b)
       /\ StoredCounter(devices, b) = 1
       /\ HasKey(devices, b)
       /\ ~HasKey(devices, last.ieee)
       /\ \A k \in {<<last.ieee, 1>>, <<b, 1>>} : Count(redispatched, k) = 1

====
